---- MODULE Spec2Model ----
(***************************************************************************)
(* A model of zpp::throwing (src/zpp_throwing.h): the tri-state            *)
(* promised_value, the hand-rolled type information and dyn_cast, the      *)
(* coroutine protocol of throwing<Type> (await_ready / await_suspend /     *)
(* await_resume / invoke), result::catches with both overloads of          *)
(* catch_exception_object, and try_catch.                                  *)
(*                                                                         *)
(* The model is instantiated for Type = int and the default allocator      *)
(* (Allocator = void).  User coroutine bodies are the environment: a       *)
(* running user body chooses its next operation nondeterministically.      *)
(***************************************************************************)
EXTENDS Integers, Sequences, FiniteSets, TLC

(***************************************************************************)
(* Bounds of the model.                                                    *)
(***************************************************************************)
\* longest clause list handed to try_catch
MaxClauses == 2
\* deepest nesting of user computations (entry body = depth 1)
MaxDepth == 2
\* ordinary statements a user body executes
MaxSteps == 1
\* capsules allocated for the promised_value objects driven directly
MaxCapsules == 2
\* exception objects dyn_cast is called on
MaxObjects == 2
\* co_await expressions the body of SpecAwait evaluates
MaxAwaits == 2
\* largest error code an error object is constructed with
MaxCode == 12

(***************************************************************************)
(* Error domains.  A domain is identified by its address; the model uses   *)
(* its name.  NoDomain is the null m_error_domain.                         *)
(***************************************************************************)
NoDomain == "nullptr"
throwing_error == "throwing_error"
throwing_exception == "throwing_exception"
errc == "std::errc"
my_error == "my_error"
\* a user domain created with a success code other than 0
status_code == "status_code"

\* the domains user code raises errors in
UserDomains == {errc, my_error}

\* all the domains an error object can be constructed for: err_domain of
\* every enumeration that has one, the two of the header included
Domains == {throwing_error, throwing_exception, errc, my_error, status_code}

\* std::errc::not_enough_memory
not_enough_memory == 12

\* the success code every domain of the header is created with
success_code == [d \in Domains |-> IF d = status_code THEN 1 ELSE 0]

\* success that takes 0 for the success code of every domain
success_zero(d, code) == code = 0

\* error_domain::success
success(d, code) == code = success_code[d]

\* the cases of the switch of err_domain<std::errc>, by the value the
\* enumerator has on the platform (the errno values of Linux)
errc_messages ==
       1 :> "Operation not permitted"
    @@ 2 :> "No such file or directory"
    @@ 3 :> "No such process"
    @@ 4 :> "Interrupted system call"
    @@ 5 :> "Input/output error"
    @@ 6 :> "No such device or address"
    @@ 7 :> "Argument list too long"
    @@ 8 :> "Exec format error"
    @@ 9 :> "Bad file descriptor"
    @@ 10 :> "No child processes"
    @@ 11 :> "Resource temporarily unavailable"
    @@ 12 :> "Cannot allocate memory"
    @@ 13 :> "Permission denied"
    @@ 14 :> "Bad address"
    @@ 16 :> "Device or resource busy"
    @@ 17 :> "File exists"
    @@ 18 :> "Invalid cross-device link"
    @@ 19 :> "No such device"
    @@ 20 :> "Not a directory"
    @@ 21 :> "Is a directory"
    @@ 22 :> "Invalid argument"
    @@ 23 :> "Too many open files in system"
    @@ 24 :> "Too many open files"
    @@ 25 :> "Inappropriate ioctl for device"
    @@ 26 :> "Text file busy"
    @@ 27 :> "File too large"
    @@ 28 :> "No space left on device"
    @@ 29 :> "Illegal seek"
    @@ 30 :> "Read-only file system"
    @@ 31 :> "Too many links"
    @@ 32 :> "Broken pipe"
    @@ 33 :> "Numerical argument out of domain"
    @@ 34 :> "Numerical result out of range"
    @@ 35 :> "Resource deadlock avoided"
    @@ 36 :> "File name too long"
    @@ 37 :> "No locks available"
    @@ 38 :> "Function not implemented"
    @@ 39 :> "Directory not empty"
    @@ 40 :> "Too many levels of symbolic links"
    @@ 42 :> "No message of desired type"
    @@ 43 :> "Identifier removed"
    @@ 60 :> "Device not a stream"
    @@ 62 :> "Timer expired"
    @@ 63 :> "Out of streams resources"
    @@ 67 :> "Link has been severed"
    @@ 71 :> "Protocol error"
    @@ 74 :> "Bad message"
    @@ 75 :> "Value too large for defined data type"
    @@ 84 :> "Invalid or incomplete multibyte or wide character"
    @@ 88 :> "Socket operation on non-socket"
    @@ 89 :> "Destination address required"
    @@ 90 :> "Message too long"
    @@ 91 :> "Protocol wrong type for socket"
    @@ 92 :> "Protocol not available"
    @@ 93 :> "Protocol not supported"
    @@ 95 :> "Operation not supported"
    @@ 97 :> "Address family not supported by protocol"
    @@ 98 :> "Address already in use"
    @@ 99 :> "Cannot assign requested address"
    @@ 100 :> "Network is down"
    @@ 101 :> "Network is unreachable"
    @@ 102 :> "Network dropped connection on reset"
    @@ 103 :> "Software caused connection abort"
    @@ 104 :> "Connection reset by peer"
    @@ 105 :> "No buffer space available"
    @@ 106 :> "Transport endpoint is already connected"
    @@ 107 :> "Transport endpoint is not connected"
    @@ 110 :> "Connection timed out"
    @@ 111 :> "Connection refused"
    @@ 113 :> "No route to host"
    @@ 114 :> "Operation already in progress"
    @@ 115 :> "Operation now in progress"
    @@ 125 :> "Operation canceled"
    @@ 130 :> "Owner died"
    @@ 131 :> "State not recoverable"

\* error::message calling domain::message, which calls the message lambda
\* the domain was made with:
\* the switch of err_domain<std::errc>, `return {}` for the two placeholder
\* domains, and the switch of the example of make_error_domain for a domain
\* of the user
message(d, code) ==
    IF d = errc
    THEN IF code \in DOMAIN errc_messages
         THEN errc_messages[code]
         ELSE "Unspecified error"
    ELSE IF d \in {throwing_error, throwing_exception}
         THEN ""
         ELSE IF code = 1 THEN "Operation not permitted."
              ELSE IF code = 2 THEN "General failure."
              ELSE "Unspecified error."

\* class error: a (domain, code) pair
error(code, domain) == [domain |-> domain, code |-> code]

\* error::success, error::failure and error::operator bool
error_success(e) == success(e.domain, e.code)
error_failure(e) == ~success(e.domain, e.code)
error_bool(e) == success(e.domain, e.code)

\* the errors user bodies raise: a failure code, and a code that is its
\* domain's success code
Errors == {error(not_enough_memory, errc), error(0, my_error)}

(***************************************************************************)
(* Exception types and their declared bases (define_exception).            *)
(* The std types are the header's own declarations; A, B, C, D, X are      *)
(* user declarations: the chain D -> C -> B -> A, and X, a second base of  *)
(* D that is unrelated to the chain; M has the bases L and R, which both   *)
(* have the base A (a diamond).                                            *)
(***************************************************************************)
define_exception ==
    [ std_exception     |-> <<>>,
      std_runtime_error |-> <<"std_exception">>,
      std_range_error   |-> <<"std_runtime_error">>,
      std_logic_error   |-> <<"std_exception">>,
      A |-> <<>>,
      B |-> <<"A">>,
      C |-> <<"B">>,
      D |-> <<"X", "C">>,
      X |-> <<>>,
      L |-> <<"A">>,
      R |-> <<"A">>,
      M |-> <<"L", "R">> ]

Types == DOMAIN define_exception

\* the types user bodies raise, and the types clauses are declared for
RaiseTypes == {"D", "std_runtime_error"}
ClauseTypes == {"B"}

\* pointers: the exception object and the path of sub-objects walked from
\* the most derived object
NullPtr == [obj |-> 0, path |-> <<>>]

\* detail::erased_static_cast<Source, Destination>
erased_static_cast(Source, Destination) == [src |-> Source, dst |-> Destination]

\* calling a cast function that returns its argument as it is
call_cast_identity(function, pointer) == pointer

\* calling an erased cast function on a pointer
call_cast(function, pointer) ==
    [obj |-> pointer.obj, path |-> Append(pointer.path, function.dst)]

\* detail::type_id<Type>(): the address of type_information<Type>::info
type_id(Type) == Type

\* type_information whose cast functions are laid out in the reverse of the
\* order of the bases
type_information_reversed(Type) ==
    LET Bases == define_exception[Type]
        number == [n |-> Len(Bases)]
    IN  <<number>>
        \o [i \in 1..Len(Bases) |-> [pointer |-> type_id(Bases[i])]]
        \o [i \in 1..Len(Bases) |->
               [function |->
                    erased_static_cast(Type, Bases[Len(Bases) + 1 - i])]]

\* detail::type_information<Type, Bases...>::info
type_information(Type) ==
    LET Bases == define_exception[Type]
        number == [n |-> Len(Bases)]
    IN  <<number>>
        \o [i \in 1..Len(Bases) |-> [pointer |-> type_id(Bases[i])]]
        \o [i \in 1..Len(Bases) |->
               [function |-> erased_static_cast(Type, Bases[i])]]

\* dyn_cast without the search of the bases
dyn_cast_exact(base, most_derived_pointer, most_derived) ==
    IF most_derived = base THEN most_derived_pointer ELSE NullPtr

RECURSIVE dyn_cast(_, _, _)
RECURSIVE dyn_cast_loop(_, _, _, _)

\* the for loop of dyn_cast going on after a conversion succeeded, so that
\* the last base that converts is the one returned
RECURSIVE dyn_cast_loop_last(_, _, _, _)
dyn_cast_loop_last(base, most_derived_pointer, most_derived, index) ==
    LET Declared == define_exception[most_derived]
    IN  IF index < Len(Declared)
        THEN LET result == dyn_cast(base,
                                    call_cast(erased_static_cast(
                                                  most_derived,
                                                  Declared[index + 1]),
                                              most_derived_pointer),
                                    type_id(Declared[index + 1]))
                 later == dyn_cast_loop_last(base, most_derived_pointer,
                                             most_derived, index + 1)
             IN  IF later # NullPtr THEN later ELSE result
        ELSE NullPtr

\* the for loop of detail::dyn_cast, from index on
dyn_cast_loop(base, most_derived_pointer, most_derived, index) ==
    LET type_info_entries == type_information(most_derived)
        number_of_base_types == type_info_entries[1].n
        bases(i) == type_info_entries[1 + 1 + i]
        cast(i) == type_info_entries[1 + number_of_base_types + 1 + i]
    IN  IF index < number_of_base_types
        THEN LET result == dyn_cast(base,
                                    call_cast(cast(index).function,
                                              most_derived_pointer),
                                    bases(index).pointer)
             IN  IF result # NullPtr
                 THEN result
                 ELSE dyn_cast_loop(base, most_derived_pointer,
                                    most_derived, index + 1)
        ELSE NullPtr

\* detail::dyn_cast
dyn_cast(base, most_derived_pointer, most_derived) ==
    IF most_derived = base
    THEN most_derived_pointer
    ELSE dyn_cast_loop(base, most_derived_pointer, most_derived, 0)

\* the calls of dyn_cast one call makes, itself included, in order: the
\* most_derived argument of each
RECURSIVE dyn_cast_calls(_, _)
RECURSIVE dyn_cast_calls_loop(_, _, _)

dyn_cast_calls_loop(base, most_derived, index) ==
    LET type_info_entries == type_information(most_derived)
        number_of_base_types == type_info_entries[1].n
        bases(i) == type_info_entries[1 + 1 + i]
    IN  IF index < number_of_base_types
        THEN LET calls == dyn_cast_calls(base, bases(index).pointer)
             IN  IF calls[Len(calls)] = base
                 THEN calls
                 ELSE calls \o dyn_cast_calls_loop(base, most_derived,
                                                   index + 1)
        ELSE <<>>

dyn_cast_calls(base, most_derived) ==
    IF most_derived = base
    THEN <<most_derived>>
    ELSE <<most_derived>> \o dyn_cast_calls_loop(base, most_derived, 0)

(***************************************************************************)
(* promised_value<Type, exception_ptr, Allocator>.                         *)
(* m_error_domain is the state tag; the union of m_error_code,             *)
(* m_exception and m_value is one cell: `active` names the member that     *)
(* was written last and `pl` is its content (an error code, an exception   *)
(* capsule id with 0 for the null pointer, or a value).                    *)
(***************************************************************************)
NoCapsule == 0

\* what reading a union member other than the active one yields
Wild == -1

\* promised_value::promised_value()
promised_value == [dom |-> throwing_error, active |-> "code", pl |-> 0]

\* a value() that hands out a value-initialised Type
m_value_default(s) == 0

m_error_code(s) == IF s.active = "code" THEN s.pl ELSE Wild
m_exception(s) == IF s.active = "exception" THEN s.pl ELSE Wild
m_value(s) == IF s.active = "value" THEN s.pl ELSE Wild

\* promised_value::has_exception
has_exception(s) == s.dom = throwing_exception

\* has_value with the test of m_error_domain left out
has_value_never(s) == FALSE

\* promised_value::has_value
has_value(s) == s.dom = NoDomain

\* promised_value::has_error
has_error(s) == ~has_value(s) /\ ~has_exception(s)

\* is_rethrow that does not look at m_exception
is_rethrow_never(s) == FALSE

\* promised_value::is_rethrow
is_rethrow(s) == has_exception(s) /\ m_exception(s) = NoCapsule

\* promised_value::get_error
get_error(s) == error(m_error_code(s), s.dom)

\* set_value without the assignment to m_error_domain
set_value_keeps_domain(s, other) ==
    [dom |-> s.dom, active |-> "value", pl |-> other]

\* promised_value::set_value
set_value(s, other) == [dom |-> NoDomain, active |-> "value", pl |-> other]

\* set_error that takes the success code of the domain for a success
set_error_unless_success(s, e) ==
    IF success(e.domain, e.code)
    THEN [dom |-> NoDomain, active |-> "value", pl |-> 0]
    ELSE [dom |-> e.domain, active |-> "code", pl |-> e.code]

\* promised_value::set_error
set_error(s, e) == [dom |-> e.domain, active |-> "code", pl |-> e.code]

\* set_exception without the test of a null m_exception
set_exception_unchecked(s, exception, allocator) ==
    [dom |-> throwing_exception, active |-> "exception", pl |-> exception]

\* promised_value::set_exception, for the allocator kind `allocator`
\* ("void", "noexcept" or "throwing")
set_exception(s, exception, allocator) ==
    LET set == [dom |-> throwing_exception, active |-> "exception",
                pl |-> exception]
    IN  IF allocator = "noexcept" /\ exception = NoCapsule
        THEN set_error(set, error(not_enough_memory, errc))
        ELSE set

\* promised_value::rethrow
rethrow(s) ==
    [dom |-> throwing_exception, active |-> "exception", pl |-> NoCapsule]

\* what a moved-from promised_value is left as: only a moved exception_ptr
\* changes (it becomes null)
moved_from(other) ==
    IF has_value(other) \/ ~has_exception(other)
    THEN other
    ELSE [other EXCEPT !.pl = IF other.active = "exception"
                              THEN NoCapsule ELSE other.pl]

\* propagate that leaves *this as it was
propagate_skipped(s, other) == s

\* propagate that copies m_error_code whatever other holds
propagate_code_only(s, other) ==
    [dom |-> other.dom, active |-> "code", pl |-> m_error_code(other)]

\* promised_value::propagate: the new *this
propagate(s, other) ==
    IF has_exception(other)
    THEN [dom |-> other.dom, active |-> "exception", pl |-> m_exception(other)]
    ELSE [dom |-> other.dom, active |-> "code", pl |-> m_error_code(other)]

\* propagate that copies the capsule pointer and leaves other's in place
propagated_from_copy(other) == other

\* what propagate leaves in other
propagated_from(other) ==
    IF has_exception(other) /\ other.active = "exception"
    THEN [other EXCEPT !.pl = NoCapsule]
    ELSE other

\* promised_value::promised_value(promised_value &&): the new object
move_construct(other) ==
    IF has_value(other)
    THEN [dom |-> NoDomain, active |-> "value", pl |-> m_value(other)]
    ELSE IF has_exception(other)
         THEN [dom |-> other.dom, active |-> "exception",
               pl |-> m_exception(other)]
         ELSE [dom |-> other.dom, active |-> "code",
               pl |-> m_error_code(other)]

\* promised_value::operator=(promised_value &&): the new *this
move_assign(s, other) ==
    IF has_value(other)
    THEN [dom |-> NoDomain, active |-> "value", pl |-> m_value(other)]
    ELSE IF has_exception(other)
         THEN [dom |-> other.dom, active |-> "exception",
               pl |-> m_exception(other)]
         ELSE [dom |-> other.dom, active |-> "code",
               pl |-> m_error_code(other)]

\* the capsule that operator= destroys or overwrites in *this (0 if none)
move_assign_released(s, other) ==
    IF has_exception(s) /\ s.active = "exception" THEN s.pl ELSE NoCapsule

\* a destructor that leaves the active exception_ptr alone
destroyed_capsule_none(s) == NoCapsule

\* the capsule ~promised_value destroys (0 if none)
destroyed_capsule(s) ==
    IF ~has_value(s) /\ has_exception(s) /\ s.active = "exception"
    THEN s.pl ELSE NoCapsule

(***************************************************************************)
(* Catch clauses.  A clause is declared for an exception type ("typed"),   *)
(* for zpp::error ("error") or without a parameter ("all"); `throwing`     *)
(* tells whether the clause is itself a coroutine returning throwing<int>. *)
(***************************************************************************)
Clauses ==
    [kind : {"typed"}, type : ClauseTypes, throwing : BOOLEAN]
    \cup [kind : {"error", "all"}, type : {"void"}, throwing : BOOLEAN]

\* the static_asserts of catch_exception_object: a clause without a
\* parameter must be the last one
accepted(cl) ==
    \A i \in 1..Len(cl) : cl[i].kind = "all" => i = Len(cl)

RECURSIVE SeqsUpTo(_, _)
SeqsUpTo(S, n) ==
    IF n = 0 THEN {<<>>}
    ELSE LET shorter == SeqsUpTo(S, n - 1)
         IN  shorter \cup {Append(q, x) : q \in shorter, x \in S}

ClauseLists == {cl \in SeqsUpTo(Clauses, MaxClauses) : Len(cl) >= 1 /\ accepted(cl)}

\* the requires-clause that selects the coroutine overload of
\* catch_exception_object for the clauses from index on: some clause is
\* throwing, or the last clause cannot be invoked without an argument
is_throwing_overload(cl, index) ==
    \/ \E i \in index..Len(cl) : cl[i].throwing
    \/ cl[Len(cl)].kind # "all"

\* the values bodies return, and the values clauses return
ReturnValues == {0, 1337}
ClauseValues == {1}

\* exception_object::null_dynamic_object
null_dynamic_object == [type_id |-> "void", address |-> NullPtr]

(***************************************************************************)
(* State.                                                                  *)
(***************************************************************************)
VARIABLES
    frames,         \* coroutine frames (and main, frame 1), by creation order
    stack,          \* the frames being executed, innermost last
    clauses,        \* the clause list given to try_catch
    tryResult,      \* the result object built from the try clause
    dynamic_object, \* the dynamic_object catches hands to the clauses
    caps,           \* the exception capsules allocated so far
    invoked,        \* log: the clauses invoked, with their argument
    outcome,        \* what try_catch delivered to its caller
    status,         \* "running", or "crashed" after a null dereference
    thrown,         \* history: the promise of the try clause when invoke took it
    clauseEnd,      \* history: what the invoked clause ended with, and what
                    \* the await that ended its body had ended with
    consumed,       \* history: the slots a propagate has moved from
    pv,             \* promised_value objects driven directly (SpecPV)
    pvCaps,         \* the capsules allocated for them (SpecPV)
    al,             \* a computation driven under an allocator (SpecAlloc)
    er,             \* an error object and the slot it is raised in (SpecError)
    dc,             \* a call of dyn_cast and what it returned (SpecCast)
    aw,             \* a computation held in a variable and awaited (SpecAwait)
    rs              \* a result handle observed and awaited (SpecResult)

\* the variables of the protocol, and those of SpecPV
hist == <<thrown, clauseEnd, consumed>>
pvars == <<pv, pvCaps>>
vars == <<frames, stack, clauses, tryResult, dynamic_object, caps, invoked,
          outcome, status, hist, pvars, al, er, dc, aw, rs>>

NoFrame == 0
Main == 1

\* the promised_value objects of SpecPV
PVNames == {"x", "y"}

\* the places of slots, for `consumed`: the promise of frame f is f, the
\* catch_result of frame f is -f, the try result is 0
TryResultPlace == 0

\* a result object that is not constructed yet
NoResult == [live |-> FALSE, m_value |-> promised_value]

\* a frame as its creation leaves it: suspended at initial_suspend, the
\* promise's m_value default constructed
NewFrame(kind, depth, index) ==
    [kind |-> kind, st |-> "created",
     pc |-> IF kind = "user" THEN "body" ELSE "start",
     m_value |-> promised_value, child |-> NoFrame,
     catch_result |-> NoResult, index |-> index, depth |-> depth,
     steps |-> 0, resumes |-> 0, awaited |-> promised_value,
     abandoned |-> 0]

Top == stack[Len(stack)]
Pop == SubSeq(stack, 1, Len(stack) - 1)

\* Running that takes every coroutine on the stack to be the resumed one
RunningAny(f) == status = "running" /\ \E i \in 1..Len(stack) : stack[i] = f

\* f is the coroutine that was resumed last and has not suspended since
Running(f) == status = "running" /\ Len(stack) >= 1 /\ Top = f

\* main before it calls try_catch
InitProtocol ==
    /\ frames = <<[NewFrame("main", 0, 0) EXCEPT !.st = "running"]>>
    /\ stack = <<Main>>
    /\ clauses = <<>>
    /\ tryResult = NoResult
    /\ dynamic_object = null_dynamic_object
    /\ caps = <<>>
    /\ invoked = <<>>
    /\ outcome = NoResult
    /\ status = "running"
    /\ thrown = NoResult
    /\ clauseEnd = [live |-> FALSE, m_value |-> promised_value,
                    awaited |-> promised_value]
    /\ consumed = {}

\* no promised_value object constructed yet
InitPV ==
    /\ pv = [x \in PVNames |-> NoResult]
    /\ pvCaps = <<>>

\* the computation of SpecAlloc for allocator kind `allocator`, driven by
\* an awaiting coroutine ("await") or by a result ("invoke"), before it
\* is created
AlStart(allocator, mode) ==
    [allocator |-> allocator, mode |-> mode, pc |-> "start",
     handle |-> "none", inner |-> promised_value, steps |-> 0,
     outer |-> promised_value, outerSteps |-> 0, res |-> NoResult,
     caps |-> <<>>, failed |-> "none"]

\* the error of SpecError before it is constructed
ErStart ==
    [pc |-> "start", e |-> error(0, throwing_error),
     m_value |-> promised_value, success |-> TRUE, failure |-> FALSE,
     bool |-> TRUE, message |-> ""]

\* dyn_cast before it is called
DcStart ==
    [pc |-> "start", base |-> "A", most_derived |-> "A",
     most_derived_pointer |-> NullPtr, result |-> NullPtr, calls |-> <<>>,
     type_info_entries |-> type_information("A")]

\* SpecAwait: the body of outer before it calls inner
AwStart(mode) ==
    [pc |-> "start", mode |-> mode, st |-> "none", inner |-> promised_value,
     outer |-> promised_value, caps |-> <<>>, resumes |-> 0, awaits |-> 0,
     steps |-> 0, seen |-> <<>>]

\* SpecResult: the body of outer before it calls inner.  `inner`, `res`,
\* `awaiter` and `outer` are the slots of the promise of inner, of the
\* result handle, of the coroutine of result::operator co_await and of the
\* promise of outer; `ended` is how the body of inner ended, `held` what
\* the handle was built with
RsStart(mode) ==
    [pc |-> "start", mode |-> mode, inner |-> promised_value,
     res |-> NoResult, awaiter |-> promised_value, outer |-> promised_value,
     caps |-> <<>>, steps |-> 0, outerSteps |-> 0, ended |-> "none",
     success |-> FALSE, failure |-> FALSE, bool |-> FALSE,
     held |-> promised_value, observed |-> promised_value, seen |-> <<>>]

Init ==
    /\ InitProtocol
    /\ InitPV
    /\ al = AlStart("void", "await")
    /\ er = ErStart
    /\ dc = DcStart
    /\ aw = AwStart("variable")
    /\ rs = RsStart("result")

(***************************************************************************)
(* Destruction.  Destroying a coroutine handle destroys the promise and    *)
(* the objects alive in the frame: the computation it holds (its child)    *)
(* and, in catch_exception_object, catch_result.                           *)
(***************************************************************************)
\* the frames that die with frame f: f and everything created after it
\* (the frames form one chain: each frame holds the next one)
Chain(fs, f) ==
    IF f = NoFrame THEN {} ELSE {g \in DOMAIN fs : g >= f}

\* the capsules whose owning exception_ptr dies with the frames of F
CapsulesOf(fs, F) ==
    ({destroyed_capsule(fs[f].m_value) : f \in F}
     \cup {destroyed_capsule(fs[f].catch_result.m_value) :
              f \in {g \in F : fs[g].catch_result.live}})
    \ {NoCapsule}

\* exception_ptr_delete on each capsule of K
Delete(cs, K) ==
    [c \in DOMAIN cs |->
        IF c \in K THEN [cs[c] EXCEPT !.alive = FALSE, !.dtors = @ + 1]
        ELSE cs[c]]

\* a destructor that frees the frames awaited by f and leaves f itself
Destroy_inner(fs, f) ==
    IF f = NoFrame THEN fs ELSE SubSeq(fs, 1, f)

\* throwing::~throwing on frame f: the coroutine frames from f on are freed
Destroy(fs, f) ==
    IF f = NoFrame THEN fs ELSE SubSeq(fs, 1, f - 1)

\* how many of the frames freed with f were never resumed
Undriven(fs, f) ==
    IF f = NoFrame THEN 0
    ELSE Cardinality({g \in f..Len(fs) : fs[g].resumes = 0})

(***************************************************************************)
(* try_catch, result::result and throwing::invoke.                         *)
(***************************************************************************)
NewId == Len(frames) + 1

\* the slots that remain once frame f and the frames after it are freed
Forget(C, f) ==
    IF f = NoFrame THEN C ELSE {p \in C : p < f /\ p > 0 - f}

\* try_catch(try_clause, catch_clause...), called by main.  Both overloads
\* first call try_clause(); the coroutine overload does so only once it is
\* resumed, so calling it creates the try_catch coroutine alone.
TryCatch ==
    /\ Running(Main)
    /\ frames[Main].pc = "start"
    /\ \E cl \in ClauseLists :
        /\ clauses' = cl
        /\ frames' = Append([frames EXCEPT ![Main].pc = "invoke",
                                           ![Main].child = NewId],
                            IF is_throwing_overload(cl, 1)
                            THEN NewFrame("try_catch", 0, 0)
                            ELSE NewFrame("user", 1, 0))
    /\ UNCHANGED hist
    /\ UNCHANGED <<pvars, al, er, dc, aw, rs>> /\ UNCHANGED <<stack, tryResult, dynamic_object, caps, invoked, outcome,
                   status>>

\* the body of the try_catch coroutine, up to the call of try_clause()
TryCatchBody(f) ==
    /\ Running(f)
    /\ frames[f].kind = "try_catch"
    /\ frames[f].pc = "start"
    /\ frames' = Append([frames EXCEPT ![f].pc = "invoke",
                                       ![f].child = NewId],
                        NewFrame("user", 1, 0))
    /\ UNCHANGED hist
    /\ UNCHANGED <<pvars, al, er, dc, aw, rs>> /\ UNCHANGED <<stack, clauses, tryResult, dynamic_object, caps, invoked,
                   outcome, status>>

\* result::result(throwing) calling throwing::invoke, which resumes the
\* coroutine
Invoke(f) ==
    /\ Running(f)
    /\ frames[f].pc = "invoke"
    /\ LET g == frames[f].child
       IN  /\ frames[g].st = "created"
           /\ frames' = [frames EXCEPT ![f].pc = "invoking",
                                       ![g].st = "running",
                                       ![g].resumes = @ + 1]
           /\ stack' = Append(stack, g)
    /\ UNCHANGED hist
    /\ UNCHANGED <<pvars, al, er, dc, aw, rs>> /\ UNCHANGED <<clauses, tryResult, dynamic_object, caps, invoked,
                   outcome, status>>

\* where the result constructed by frame f lives
ResultPlace(f) ==
    IF frames[f].kind = "catch_exception_object" THEN "catch_result"
    ELSE IF f = Main /\ is_throwing_overload(clauses, 1) THEN "outcome"
    ELSE "tryResult"

\* throwing::invoke after the resume returned: the promise's m_value is
\* moved into the result; the throwing object is destroyed afterwards
InvokeReturn(f) ==
    /\ Running(f)
    /\ frames[f].pc = "invoking"
    /\ LET g == frames[f].child
           r == [live |-> TRUE, m_value |-> move_construct(frames[g].m_value)]
           moved == [frames EXCEPT ![g].m_value = moved_from(@)]
           dead == Chain(moved, g)
           place == ResultPlace(f)
       IN  /\ frames' = [Destroy(moved, g) EXCEPT
                            ![f].child = NoFrame,
                            ![f].pc = CASE place = "outcome" -> "done"
                                        [] place = "tryResult" -> "catches"
                                        [] OTHER -> "catch_result",
                            ![f].catch_result =
                                IF place = "catch_result" THEN r ELSE @]
           /\ tryResult' = IF place = "tryResult" THEN r
                           ELSE IF place = "outcome"
                                THEN [tryResult EXCEPT !.live = FALSE]
                                ELSE tryResult
           /\ outcome' = IF place = "outcome" THEN r ELSE outcome
           /\ caps' = Delete(caps,
                             CapsulesOf(moved, dead) \cup
                             (IF place = "outcome" /\ tryResult.live
                              THEN {destroyed_capsule(tryResult.m_value)}
                                   \ {NoCapsule}
                              ELSE {}))
    /\ thrown' = IF ResultPlace(f) = "tryResult"
                 THEN [live |-> TRUE, m_value |-> frames[frames[f].child].m_value]
                 ELSE thrown
    /\ clauseEnd' = IF ResultPlace(f) = "catch_result"
                    THEN [live |-> TRUE,
                          m_value |-> frames[frames[f].child].m_value,
                          awaited |->
                              IF frames[frames[f].child].pc = "failed"
                              THEN frames[frames[f].child].awaited
                              ELSE promised_value]
                    ELSE clauseEnd
    /\ consumed' = Forget(consumed, frames[f].child)
                      \ (IF ResultPlace(f) = "outcome"
                         THEN {TryResultPlace} ELSE {})
    /\ UNCHANGED <<pvars, al, er, dc, aw, rs>> /\ UNCHANGED <<stack, clauses, dynamic_object, invoked, status>>

(***************************************************************************)
(* co_await on a throwing object: await_ready, await_resume,               *)
(* await_suspend.                                                          *)
(***************************************************************************)
IsLibrary(f) == frames[f].kind \in {"try_catch", "catches", "catch_exception_object"}

\* throwing::await_ready: resumes the awaited coroutine
AwaitReady(f) ==
    /\ Running(f)
    /\ \/ frames[f].pc = "await"
       \/ frames[f].kind = "user" /\ frames[f].pc = "body"
    /\ frames[f].child # NoFrame
    /\ LET g == frames[f].child
       IN  /\ frames[g].st = "created"
           /\ frames' = [frames EXCEPT ![f].pc = "awaiting",
                                       ![g].st = "running",
                                       ![g].resumes = @ + 1]
           /\ stack' = Append(stack, g)
    /\ UNCHANGED hist
    /\ UNCHANGED <<pvars, al, er, dc, aw, rs>> /\ UNCHANGED <<clauses, tryResult, dynamic_object, caps, invoked,
                   outcome, status>>

\* await_ready returned true: throwing::await_resume hands over the value
\* and the awaiting body goes on.  A user body continues with its next
\* operation (the observed value is the awaited one); the library
\* coroutines all `co_return co_await ...`, so they return_value it.
AwaitResume(f) ==
    /\ Running(f)
    /\ frames[f].pc = "awaiting"
    /\ LET g == frames[f].child
           v == m_value(frames[g].m_value)
           dead == Chain(frames, g)
           gone == Destroy(frames, g)
       IN  /\ has_value(frames[g].m_value)
           /\ IF IsLibrary(f)
              THEN /\ frames' = [gone EXCEPT
                                    ![f].child = NoFrame,
                                    ![f].pc = "returned",
                                    ![f].st = "done",
                                    ![f].m_value = set_value(@, v)]
                   /\ stack' = Pop
              ELSE /\ frames' = [gone EXCEPT ![f].child = NoFrame,
                                             ![f].pc = "body"]
                   /\ stack' = stack
           /\ caps' = Delete(caps,
                             CapsulesOf(frames, dead) \cup
                             (IF frames[f].kind = "try_catch" /\ tryResult.live
                              THEN {destroyed_capsule(tryResult.m_value)}
                                   \ {NoCapsule}
                              ELSE {}))
           /\ tryResult' = IF frames[f].kind = "try_catch"
                           THEN [tryResult EXCEPT !.live = FALSE]
                           ELSE tryResult
    /\ consumed' = Forget(consumed, frames[f].child)
                      \ (IF frames[f].kind = "try_catch"
                         THEN {TryResultPlace} ELSE {})
    /\ UNCHANGED <<thrown, clauseEnd>>
    /\ UNCHANGED <<pvars, al, er, dc, aw, rs>> /\ UNCHANGED <<clauses, dynamic_object, invoked, outcome, status>>

\* await_ready returned false: throwing::await_suspend propagates the
\* failure, unless it is a rethrow, and the awaiting coroutine stays
\* suspended
AwaitSuspend(f) ==
    /\ Running(f)
    /\ frames[f].pc = "awaiting"
    /\ LET g == frames[f].child
           value == frames[g].m_value
       IN  /\ ~has_value(value)
           /\ frames' =
                IF ~is_rethrow(value)
                THEN [frames EXCEPT ![f].m_value = propagate(@, value),
                                    ![g].m_value = propagated_from(@),
                                    ![f].awaited = value,
                                    ![f].st = "suspended",
                                    ![f].pc = "failed"]
                ELSE [frames EXCEPT ![f].awaited = value,
                                    ![f].st = "suspended",
                                    ![f].pc = "failed"]
    /\ stack' = Pop
    /\ consumed' = IF ~is_rethrow(frames[frames[f].child].m_value)
                   THEN consumed \cup {frames[f].child}
                   ELSE consumed
    /\ UNCHANGED <<thrown, clauseEnd>>
    /\ UNCHANGED <<pvars, al, er, dc, aw, rs>> /\ UNCHANGED <<clauses, tryResult, dynamic_object, caps, invoked,
                   outcome, status>>

(***************************************************************************)
(* User coroutine bodies: the entry computation, the computations it       *)
(* awaits, and the bodies of throwing clauses.                             *)
(***************************************************************************)
InBody(f) ==
    /\ Running(f)
    /\ frames[f].kind = "user"
    /\ frames[f].st = "running"
    /\ frames[f].pc = "body"

\* an ordinary statement of the body
UserStatement(f) ==
    /\ InBody(f)
    /\ frames[f].steps < MaxSteps
    /\ frames' = [frames EXCEPT ![f].steps = @ + 1]
    /\ UNCHANGED hist
    /\ UNCHANGED <<pvars, al, er, dc, aw, rs>> /\ UNCHANGED <<stack, clauses, tryResult, dynamic_object, caps, invoked,
                   outcome, status>>

\* a call that starts the body of the called function at once, as a
\* coroutine whose initial_suspend does not suspend would
UserCallEager(f) ==
    /\ InBody(f)
    /\ frames[f].depth < MaxDepth
    /\ frames[f].child = NoFrame
    /\ frames' = Append([frames EXCEPT ![f].child = NewId],
                        [NewFrame("user", frames[f].depth + 1, 0)
                            EXCEPT !.st = "running"])
    /\ stack' = Append(stack, NewId)
    /\ UNCHANGED hist
    /\ UNCHANGED <<pvars, al, er, dc, aw, rs>>
    /\ UNCHANGED <<clauses, tryResult, dynamic_object, caps, invoked,
                   outcome, status>>

\* calling a fallible function: get_return_object after initial_suspend
UserCall(f) ==
    /\ InBody(f)
    /\ frames[f].depth < MaxDepth
    /\ frames[f].child = NoFrame
    /\ frames' = Append([frames EXCEPT ![f].child = NewId],
                        NewFrame("user", frames[f].depth + 1, 0))
    /\ UNCHANGED hist
    /\ UNCHANGED <<pvars, al, er, dc, aw, rs>> /\ UNCHANGED <<stack, clauses, tryResult, dynamic_object, caps, invoked,
                   outcome, status>>

\* co_return value: returns_value::return_value, then final_suspend
UserReturn(f) ==
    /\ InBody(f)
    /\ \E v \in ReturnValues :
        frames' = [Destroy(frames, frames[f].child) EXCEPT
                      ![f].child = NoFrame,
                      ![f].m_value = set_value(@, v),
                      ![f].st = "done",
                      ![f].pc = "returned",
                      ![f].abandoned = Undriven(frames, frames[f].child)]
    /\ stack' = Pop
    /\ consumed' = Forget(consumed, frames[f].child)
    /\ UNCHANGED <<thrown, clauseEnd>>
    /\ UNCHANGED <<pvars, al, er, dc, aw, rs>> /\ UNCHANGED <<clauses, tryResult, dynamic_object, caps, invoked,
                   outcome, status>>

\* make_exception_ptr for Allocator = void: a new capsule holding the value
make_exception_ptr(cs, Type) ==
    Append(cs, [type |-> Type, alive |-> TRUE, dtors |-> 0])

\* co_yield exception: basic_promise_type::yield_value(Value &&)
UserRaise(f) ==
    /\ InBody(f)
    /\ \E Type \in RaiseTypes :
        /\ caps' = make_exception_ptr(caps, Type)
        /\ frames' = [frames EXCEPT
                         ![f].m_value = set_exception(@, Len(caps'), "void"),
                         ![f].st = "suspended",
                         ![f].pc = "raised"]
    /\ stack' = Pop
    /\ UNCHANGED hist
    /\ UNCHANGED <<pvars, al, er, dc, aw, rs>> /\ UNCHANGED <<clauses, tryResult, dynamic_object, invoked, outcome,
                   status>>

\* co_yield error: basic_promise_type::yield_value(const error &)
UserRaiseError(f) ==
    /\ InBody(f)
    /\ \E e \in Errors :
        frames' = [frames EXCEPT ![f].m_value = set_error(@, e),
                                 ![f].st = "suspended",
                                 ![f].pc = "raised"]
    /\ stack' = Pop
    /\ UNCHANGED hist
    /\ UNCHANGED <<pvars, al, er, dc, aw, rs>> /\ UNCHANGED <<clauses, tryResult, dynamic_object, caps, invoked,
                   outcome, status>>

\* co_yield zpp::rethrow: basic_promise_type::yield_value(rethrow_t)
UserRethrow(f) ==
    /\ InBody(f)
    /\ frames' = [frames EXCEPT ![f].m_value = rethrow(@),
                                ![f].st = "suspended",
                                ![f].pc = "raised"]
    /\ stack' = Pop
    /\ UNCHANGED hist
    /\ UNCHANGED <<pvars, al, er, dc, aw, rs>> /\ UNCHANGED <<clauses, tryResult, dynamic_object, caps, invoked,
                   outcome, status>>

(***************************************************************************)
(* result::catches and result::catch_exception_object.                     *)
(***************************************************************************)
NoError == error(0, NoDomain)

\* the lambda of catches: the dynamic_object of the stored exception, or
\* null_dynamic_object for an error.  exception() dereferences m_exception:
\* with a null capsule that is undefined; the outcomes modelled are a
\* crash and a read that yields the null dynamic object.
DynamicObjects(m) ==
    IF has_exception(m)
    THEN IF m_exception(m) \in DOMAIN caps
         THEN {[crash |-> FALSE,
                object |-> [type_id |-> type_id(caps[m_exception(m)].type),
                            address |-> [obj |-> m_exception(m),
                                         path |-> <<caps[m_exception(m)].type>>]]]}
         ELSE {[crash |-> TRUE, object |-> null_dynamic_object],
               [crash |-> FALSE, object |-> null_dynamic_object]}
    ELSE {[crash |-> FALSE, object |-> null_dynamic_object]}

\* a clause test whose parameterless clause takes exceptions only
clause_match_exceptions(clause, exception, m) ==
    [matched |-> exception.address # NullPtr, object |-> NullPtr,
     error |-> NoError]

\* the clause test shared by the three branches of catch_exception_object
\* (coroutine overload): does the clause take the failure, and with what
clause_match(clause, exception, m) ==
    IF clause.kind = "all"
    THEN [matched |-> TRUE, object |-> NullPtr, error |-> NoError]
    ELSE IF clause.kind = "error"
         THEN IF exception.address # NullPtr
              THEN [matched |-> FALSE, object |-> NullPtr, error |-> NoError]
              ELSE [matched |-> TRUE, object |-> NullPtr,
                    error |-> get_error(m)]
         ELSE LET catch_object ==
                      IF exception.address # NullPtr
                      THEN dyn_cast(type_id(clause.type), exception.address,
                                    exception.type_id)
                      ELSE NullPtr
              IN  [matched |-> catch_object # NullPtr,
                   object |-> catch_object, error |-> NoError]

\* catch_exception_object that lets the failure fall past the last clause
catch_exception_object_past_end(exception, cl, index, m) ==
    [clause |-> Len(cl) + 1, object |-> NullPtr, error |-> NoError]

\* catch_exception_object that goes to the last clause at once
catch_exception_object_last(exception, cl, index, m) ==
    [clause |-> Len(cl), object |-> NullPtr, error |-> NoError]

RECURSIVE catch_exception_object(_, _, _, _)

\* catch_exception_object, the overload for clauses that cannot throw: the
\* clause it ends up invoking, with its argument
catch_exception_object(exception, cl, index, m) ==
    LET clause == cl[index]
    IN  IF clause.kind = "all"
        THEN [clause |-> index, object |-> NullPtr, error |-> NoError]
        ELSE IF clause.kind = "error"
             THEN IF exception.address # NullPtr
                  THEN catch_exception_object(exception, cl, index + 1, m)
                  ELSE [clause |-> index, object |-> NullPtr,
                        error |-> get_error(m)]
             ELSE LET catch_object ==
                          IF exception.address # NullPtr
                          THEN dyn_cast(type_id(clause.type),
                                        exception.address, exception.type_id)
                          ELSE NullPtr
                  IN  IF catch_object = NullPtr
                      THEN catch_exception_object(exception, cl, index + 1, m)
                      ELSE [clause |-> index, object |-> catch_object,
                            error |-> NoError]

\* result::catches, coroutine overload, called in the try_catch coroutine:
\* a new coroutine, awaited next
CatchesCall(f) ==
    /\ Running(f)
    /\ frames[f].kind = "try_catch"
    /\ frames[f].pc = "catches"
    /\ frames' = Append([frames EXCEPT ![f].pc = "await",
                                       ![f].child = NewId],
                        NewFrame("catches", 0, 0))
    /\ UNCHANGED hist
    /\ UNCHANGED <<pvars, al, er, dc, aw, rs>> /\ UNCHANGED <<stack, clauses, tryResult, dynamic_object, caps, invoked,
                   outcome, status>>

\* the body of catches (coroutine overload) when the result holds a value
CatchesValue(f) ==
    /\ Running(f)
    /\ frames[f].kind = "catches"
    /\ frames[f].pc = "start"
    /\ has_value(tryResult.m_value)
    /\ frames' = [frames EXCEPT
                     ![f].m_value = set_value(@, m_value(tryResult.m_value)),
                     ![f].st = "done",
                     ![f].pc = "returned"]
    /\ stack' = Pop
    /\ UNCHANGED hist
    /\ UNCHANGED <<pvars, al, er, dc, aw, rs>> /\ UNCHANGED <<clauses, tryResult, dynamic_object, caps, invoked,
                   outcome, status>>

\* the body of catches (coroutine overload) on a failure: it computes the
\* dynamic object and calls catch_exception_object on all the clauses
Catches(f) ==
    /\ Running(f)
    /\ frames[f].kind = "catches"
    /\ frames[f].pc = "start"
    /\ ~has_value(tryResult.m_value)
    /\ \E d \in DynamicObjects(tryResult.m_value) :
        IF d.crash
        THEN /\ status' = "crashed"
             /\ UNCHANGED <<frames, dynamic_object>>
        ELSE /\ status' = status
             /\ dynamic_object' = d.object
             /\ frames' = Append([frames EXCEPT ![f].pc = "await",
                                                ![f].child = NewId],
                                 NewFrame("catch_exception_object", 0, 1))
    /\ UNCHANGED hist
    /\ UNCHANGED <<pvars, al, er, dc, aw, rs>> /\ UNCHANGED <<stack, clauses, tryResult, caps, invoked, outcome>>

\* result::catches, the overload for clauses that cannot throw, called by
\* try_catch in main: it returns the value, or the value of the clause that
\* catch_exception_object invokes
CatchesNoThrow ==
    /\ Running(Main)
    /\ frames[Main].pc = "catches"
    /\ \E d \in DynamicObjects(tryResult.m_value), w \in ClauseValues :
        IF has_value(tryResult.m_value)
        THEN /\ outcome' = [live |-> TRUE,
                            m_value |-> set_value(promised_value,
                                                  m_value(tryResult.m_value))]
             /\ UNCHANGED <<invoked, status, dynamic_object>>
             /\ frames' = [frames EXCEPT ![Main].pc = "done"]
        ELSE IF d.crash
             THEN /\ status' = "crashed"
                  /\ UNCHANGED <<invoked, outcome, dynamic_object, frames>>
             ELSE /\ dynamic_object' = d.object
                  /\ invoked' = Append(invoked,
                         catch_exception_object(d.object, clauses, 1,
                                                tryResult.m_value))
                  /\ outcome' = [live |-> TRUE,
                                 m_value |-> set_value(promised_value, w)]
                  /\ frames' = [frames EXCEPT ![Main].pc = "done"]
                  /\ status' = status
    /\ clauseEnd' = IF invoked' # invoked
                    THEN [live |-> TRUE, m_value |-> outcome'.m_value,
                          awaited |-> promised_value]
                    ELSE clauseEnd
    /\ UNCHANGED <<thrown, consumed>>
    /\ tryResult' = IF status' = "crashed" THEN tryResult
                    ELSE [tryResult EXCEPT !.live = FALSE]
    /\ caps' = IF status' = "crashed" THEN caps
               ELSE Delete(caps, {destroyed_capsule(tryResult.m_value)}
                                 \ {NoCapsule})
    /\ UNCHANGED <<pvars, al, er, dc, aw, rs>> /\ UNCHANGED <<stack, clauses>>

\* catch_exception_object (coroutine overload) resumed for clause `index`
InCatch(f) ==
    /\ Running(f)
    /\ frames[f].kind = "catch_exception_object"
    /\ frames[f].pc = "start"

CatchClause(f) == clauses[frames[f].index]
CatchMatch(f) == clause_match(CatchClause(f), dynamic_object, tryResult.m_value)

\* yield_value that suspends without propagating
yield_value_rethrow_dropped(fs, f, other) ==
    [fs EXCEPT ![f].st = "suspended", ![f].pc = "raised"]

\* co_yield std::tie(rethrow, exception), i.e.
\* basic_promise_type::yield_value(std::tuple<const rethrow_t &, Exception &>):
\* the frames after frame f propagated from `other` and suspended
yield_value_rethrow(fs, f, other) ==
    [fs EXCEPT ![f].m_value = propagate(@, other),
               ![f].st = "suspended",
               ![f].pc = "raised"]

\* the clause does not match and clauses remain, one of which needs the
\* coroutine overload: co_return co_await catch_exception_object(rest)
CatchNext(f) ==
    /\ InCatch(f)
    /\ ~CatchMatch(f).matched
    /\ frames[f].index < Len(clauses)
    /\ is_throwing_overload(clauses, frames[f].index + 1)
    /\ frames' = Append([frames EXCEPT ![f].pc = "await",
                                       ![f].child = NewId],
                        NewFrame("catch_exception_object", 0,
                                 frames[f].index + 1))
    /\ UNCHANGED hist
    /\ UNCHANGED <<pvars, al, er, dc, aw, rs>> /\ UNCHANGED <<stack, clauses, tryResult, dynamic_object, caps, invoked,
                   outcome, status>>

\* the clause does not match and the remaining clauses cannot throw:
\* co_return catch_exception_object(rest)
CatchNextNoThrow(f) ==
    /\ InCatch(f)
    /\ ~CatchMatch(f).matched
    /\ frames[f].index < Len(clauses)
    /\ ~is_throwing_overload(clauses, frames[f].index + 1)
    /\ \E w \in ClauseValues :
        /\ frames' = [frames EXCEPT ![f].m_value = set_value(@, w),
                                    ![f].st = "done",
                                    ![f].pc = "returned"]
        /\ clauseEnd' = [live |-> TRUE,
                         m_value |-> set_value(promised_value, w),
                         awaited |-> promised_value]
    /\ UNCHANGED <<thrown, consumed>>
    /\ invoked' = Append(invoked,
                         catch_exception_object(dynamic_object, clauses,
                                                frames[f].index + 1,
                                                tryResult.m_value))
    /\ stack' = Pop
    /\ UNCHANGED <<pvars, al, er, dc, aw, rs>> /\ UNCHANGED <<clauses, tryResult, dynamic_object, caps, outcome, status>>

\* the clause does not match and it is the last one:
\* co_yield std::tie(rethrow, m_value)
CatchUnmatched(f) ==
    /\ InCatch(f)
    /\ ~CatchMatch(f).matched
    /\ frames[f].index = Len(clauses)
    /\ frames' = yield_value_rethrow(frames, f, tryResult.m_value)
    /\ tryResult' = [tryResult EXCEPT !.m_value = propagated_from(@)]
    /\ stack' = Pop
    /\ consumed' = consumed \cup {TryResultPlace}
    /\ UNCHANGED <<thrown, clauseEnd>>
    /\ UNCHANGED <<pvars, al, er, dc, aw, rs>> /\ UNCHANGED <<clauses, dynamic_object, caps, invoked, outcome, status>>

\* the clause matches and is throwing: the clause is called, which creates
\* its coroutine; `result catch_result = clause(...)` invokes it next
CatchInvoke(f) ==
    /\ InCatch(f)
    /\ CatchMatch(f).matched
    /\ CatchClause(f).throwing
    /\ frames' = Append([frames EXCEPT ![f].pc = "invoke",
                                       ![f].child = NewId],
                        NewFrame("user", 1, frames[f].index))
    /\ invoked' = Append(invoked, [clause |-> frames[f].index,
                                   object |-> CatchMatch(f).object,
                                   error |-> CatchMatch(f).error])
    /\ UNCHANGED hist
    /\ UNCHANGED <<pvars, al, er, dc, aw, rs>> /\ UNCHANGED <<stack, clauses, tryResult, dynamic_object, caps, outcome,
                   status>>

\* the clause matches and cannot throw: co_return clause(...)
CatchReturn(f) ==
    /\ InCatch(f)
    /\ CatchMatch(f).matched
    /\ ~CatchClause(f).throwing
    /\ \E w \in ClauseValues :
        /\ frames' = [frames EXCEPT ![f].m_value = set_value(@, w),
                                    ![f].st = "done",
                                    ![f].pc = "returned"]
        /\ clauseEnd' = [live |-> TRUE,
                         m_value |-> set_value(promised_value, w),
                         awaited |-> promised_value]
    /\ UNCHANGED <<thrown, consumed>>
    /\ invoked' = Append(invoked, [clause |-> frames[f].index,
                                   object |-> CatchMatch(f).object,
                                   error |-> CatchMatch(f).error])
    /\ stack' = Pop
    /\ UNCHANGED <<pvars, al, er, dc, aw, rs>> /\ UNCHANGED <<clauses, tryResult, dynamic_object, caps, outcome, status>>

\* after `result catch_result = clause(...)`
AfterClause(f) ==
    /\ Running(f)
    /\ frames[f].kind = "catch_exception_object"
    /\ frames[f].pc = "catch_result"

\* catch_result.is_rethrow(): co_yield std::tie(rethrow, m_value)
CatchResultRethrow(f) ==
    /\ AfterClause(f)
    /\ is_rethrow(frames[f].catch_result.m_value)
    /\ frames' = yield_value_rethrow(frames, f, tryResult.m_value)
    /\ tryResult' = [tryResult EXCEPT !.m_value = propagated_from(@)]
    /\ stack' = Pop
    /\ consumed' = consumed \cup {TryResultPlace}
    /\ UNCHANGED <<thrown, clauseEnd>>
    /\ UNCHANGED <<pvars, al, er, dc, aw, rs>> /\ UNCHANGED <<clauses, dynamic_object, caps, invoked, outcome, status>>

\* !catch_result: co_yield std::tie(rethrow, catch_result.promised())
CatchResultFailure(f) ==
    /\ AfterClause(f)
    /\ ~is_rethrow(frames[f].catch_result.m_value)
    /\ ~has_value(frames[f].catch_result.m_value)
    /\ frames' = [yield_value_rethrow(frames, f,
                                      frames[f].catch_result.m_value)
                  EXCEPT ![f].catch_result.m_value = propagated_from(@)]
    /\ stack' = Pop
    /\ consumed' = consumed \cup {0 - f}
    /\ UNCHANGED <<thrown, clauseEnd>>
    /\ UNCHANGED <<pvars, al, er, dc, aw, rs>> /\ UNCHANGED <<clauses, tryResult, dynamic_object, caps, invoked,
                   outcome, status>>

\* co_return std::move(catch_result).value()
CatchResultValue(f) ==
    /\ AfterClause(f)
    /\ has_value(frames[f].catch_result.m_value)
    /\ frames' = [frames EXCEPT
                     ![f].m_value =
                         set_value(@, m_value(frames[f].catch_result.m_value)),
                     ![f].catch_result.live = FALSE,
                     ![f].st = "done",
                     ![f].pc = "returned"]
    /\ stack' = Pop
    /\ UNCHANGED hist
    /\ UNCHANGED <<pvars, al, er, dc, aw, rs>> /\ UNCHANGED <<clauses, tryResult, dynamic_object, caps, invoked,
                   outcome, status>>

\* the caller of try_catch is done with what it was handed: the result is
\* destroyed, ~promised_value on its slot
MainExit ==
    /\ Running(Main)
    /\ frames[Main].pc = "done"
    /\ outcome.live
    /\ frames' = [frames EXCEPT ![Main].pc = "exit"]
    /\ outcome' = [outcome EXCEPT !.live = FALSE]
    /\ caps' = Delete(caps, {destroyed_capsule(outcome.m_value)} \ {NoCapsule})
    /\ UNCHANGED hist
    /\ UNCHANGED <<pvars, al, er, dc, aw, rs>> /\ UNCHANGED <<stack, clauses, tryResult, dynamic_object, invoked, status>>

(***************************************************************************)
(* The specification.                                                      *)
(***************************************************************************)
Frames == DOMAIN frames

Next ==
    \/ TryCatch
    \/ CatchesNoThrow
    \/ MainExit
    \/ \E f \in Frames : TryCatchBody(f)
    \/ \E f \in Frames : Invoke(f)
    \/ \E f \in Frames : InvokeReturn(f)
    \/ \E f \in Frames : AwaitReady(f)
    \/ \E f \in Frames : AwaitResume(f)
    \/ \E f \in Frames : AwaitSuspend(f)
    \/ \E f \in Frames : UserStatement(f)
    \/ \E f \in Frames : UserCall(f)
    \/ \E f \in Frames : UserReturn(f)
    \/ \E f \in Frames : UserRaise(f)
    \/ \E f \in Frames : UserRaiseError(f)
    \/ \E f \in Frames : UserRethrow(f)
    \/ \E f \in Frames : CatchesCall(f)
    \/ \E f \in Frames : CatchesValue(f)
    \/ \E f \in Frames : Catches(f)
    \/ \E f \in Frames : CatchNext(f)
    \/ \E f \in Frames : CatchNextNoThrow(f)
    \/ \E f \in Frames : CatchUnmatched(f)
    \/ \E f \in Frames : CatchInvoke(f)
    \/ \E f \in Frames : CatchReturn(f)
    \/ \E f \in Frames : CatchResultRethrow(f)
    \/ \E f \in Frames : CatchResultFailure(f)
    \/ \E f \in Frames : CatchResultValue(f)

Spec == Init /\ [][Next]_vars

(***************************************************************************)
(* promised_value objects driven directly: every mutating operation of     *)
(* the class, called under the preconditions its comments document, on     *)
(* the objects of PVNames.  Capsules come from make_exception_ptr; with a  *)
(* noexcept allocator the capsule may be null.                             *)
(***************************************************************************)
protocol == <<frames, stack, clauses, tryResult, dynamic_object, caps,
              invoked, outcome, status, hist>>

\* promised_value::promised_value()
PVConstruct(x) ==
    /\ ~pv[x].live
    /\ pv' = [pv EXCEPT ![x] = [live |-> TRUE, m_value |-> promised_value]]
    /\ UNCHANGED pvCaps
    /\ UNCHANGED <<protocol, al, er, dc, aw, rs>>

\* the documented precondition of set_value, set_exception, rethrow and
\* set_error: `this` holds neither a value nor an exception
Settable(x) ==
    /\ pv[x].live
    /\ ~has_value(pv[x].m_value)
    /\ ~has_exception(pv[x].m_value)

PVSetValue(x) ==
    /\ Settable(x)
    /\ \E v \in ReturnValues :
        pv' = [pv EXCEPT ![x].m_value = set_value(@, v)]
    /\ UNCHANGED pvCaps
    /\ UNCHANGED <<protocol, al, er, dc, aw, rs>>

PVSetError(x) ==
    /\ Settable(x)
    /\ \E e \in Errors :
        pv' = [pv EXCEPT ![x].m_value = set_error(@, e)]
    /\ UNCHANGED pvCaps
    /\ UNCHANGED <<protocol, al, er, dc, aw, rs>>

\* set_exception(make_exception_ptr(...)) with a capsule that was allocated
PVSetException(x) ==
    /\ Settable(x)
    /\ Len(pvCaps) < MaxCapsules
    /\ \E Type \in RaiseTypes, allocator \in {"void", "noexcept", "throwing"} :
        /\ pvCaps' = make_exception_ptr(pvCaps, Type)
        /\ pv' = [pv EXCEPT
                     ![x].m_value = set_exception(@, Len(pvCaps'), allocator)]
    /\ UNCHANGED <<protocol, al, er, dc, aw, rs>>

\* set_exception with the null capsule a noexcept allocator yields when
\* the allocation fails
PVSetExceptionNull(x) ==
    /\ Settable(x)
    /\ pv' = [pv EXCEPT
                 ![x].m_value = set_exception(@, NoCapsule, "noexcept")]
    /\ UNCHANGED pvCaps
    /\ UNCHANGED <<protocol, al, er, dc, aw, rs>>

PVRethrow(x) ==
    /\ Settable(x)
    /\ pv' = [pv EXCEPT ![x].m_value = rethrow(@)]
    /\ UNCHANGED pvCaps
    /\ UNCHANGED <<protocol, al, er, dc, aw, rs>>

\* x.propagate(y): neither holds a value and x holds no exception
PVPropagate(x, y) ==
    /\ x # y
    /\ Settable(x)
    /\ pv[y].live
    /\ ~has_value(pv[y].m_value)
    /\ pv' = [pv EXCEPT ![x].m_value = propagate(@, pv[y].m_value),
                        ![y].m_value = propagated_from(@)]
    /\ UNCHANGED pvCaps
    /\ UNCHANGED <<protocol, al, er, dc, aw, rs>>

\* promised_value x(std::move(y))
PVMoveConstruct(x, y) ==
    /\ x # y
    /\ ~pv[x].live
    /\ pv[y].live
    /\ pv' = [pv EXCEPT ![x] = [live |-> TRUE,
                                m_value |-> move_construct(pv[y].m_value)],
                        ![y].m_value = moved_from(@)]
    /\ UNCHANGED pvCaps
    /\ UNCHANGED <<protocol, al, er, dc, aw, rs>>

\* x = std::move(y)
PVMoveAssign(x, y) ==
    /\ x # y
    /\ pv[x].live
    /\ pv[y].live
    /\ pv' = [pv EXCEPT ![x].m_value = move_assign(@, pv[y].m_value),
                        ![y].m_value = moved_from(@)]
    /\ pvCaps' = Delete(pvCaps,
                        {move_assign_released(pv[x].m_value, pv[y].m_value)}
                        \ {NoCapsule})
    /\ UNCHANGED <<protocol, al, er, dc, aw, rs>>

\* promised_value::~promised_value
PVDestroy(x) ==
    /\ pv[x].live
    /\ pv' = [pv EXCEPT ![x].live = FALSE]
    /\ pvCaps' = Delete(pvCaps, {destroyed_capsule(pv[x].m_value)}
                                \ {NoCapsule})
    /\ UNCHANGED <<protocol, al, er, dc, aw, rs>>

NextPV ==
    \/ \E x \in PVNames : PVConstruct(x)
    \/ \E x \in PVNames : PVSetValue(x)
    \/ \E x \in PVNames : PVSetError(x)
    \/ \E x \in PVNames : PVSetException(x)
    \/ \E x \in PVNames : PVSetExceptionNull(x)
    \/ \E x \in PVNames : PVRethrow(x)
    \/ \E x, y \in PVNames : PVPropagate(x, y)
    \/ \E x, y \in PVNames : PVMoveConstruct(x, y)
    \/ \E x, y \in PVNames : PVMoveAssign(x, y)
    \/ \E x \in PVNames : PVDestroy(x)

SpecPV == Init /\ [][NextPV]_vars

(***************************************************************************)
(* SpecAlloc: one fallible function `inner` called under an allocator      *)
(* kind, either awaited by an outer fallible function ("await") or driven  *)
(* by throwing::invoke ("invoke").  Every allocation, of the coroutine     *)
(* frame and of the exception capsule, may succeed or fail.  The record    *)
(* al holds the position of the run (pc), the handle the call returned,    *)
(* the slots of the two promises (inner, outer), the result invoke         *)
(* returns (res), the capsules (caps), the statements the bodies ran       *)
(* (steps, outerSteps) and the allocation that failed (failed).            *)
(***************************************************************************)
\* is_noexcept_allocator taken to be false of every allocator
is_noexcept_allocator_never(allocator) == FALSE

\* promise_type::is_noexcept_allocator: for Allocator = void the test is
\* made on std::allocator<std::byte>, whose allocate is not noexcept
is_noexcept_allocator(allocator) == allocator = "noexcept"

\* an allocation: `new` for Allocator = void and allocate of a throwing
\* allocator throw when they fail, allocate of a noexcept allocator
\* returns null
allocate(allocator, ok) ==
    IF ok THEN "pointer"
    ELSE IF allocator = "noexcept" THEN "null" ELSE "throw"

\* basic_promise_type::unhandled_exception
unhandled_exception(a) == [a EXCEPT !.pc = "terminated"]

\* the call of the fallible function: operator new of the promise
\* allocates the frame; a null makes
\* get_return_object_on_allocation_failure return throwing(nullptr); an
\* exception leaves the call, into the body of the awaiting coroutine
\* ("await") or to the plain caller ("invoke")
AlCall ==
    /\ al.pc = "start"
    /\ \E ok \in BOOLEAN :
        LET p == allocate(al.allocator, ok)
        IN  al' = IF p = "pointer"
                  THEN [al EXCEPT !.pc = "created", !.handle = "frame"]
                  ELSE IF p = "null"
                  THEN [al EXCEPT !.pc = "created", !.handle = "null",
                                  !.failed = "frame"]
                  ELSE IF al.mode = "await"
                  THEN unhandled_exception([al EXCEPT !.failed = "frame"])
                  ELSE [al EXCEPT !.pc = "bad_alloc", !.failed = "frame"]
    /\ UNCHANGED <<protocol, pvars, er, dc, aw, rs>>

\* throwing::await_ready up to the resumption of the handle
AlAwaitReady ==
    /\ al.pc = "created"
    /\ al.mode = "await"
    /\ al' = IF is_noexcept_allocator(al.allocator) /\ al.handle = "null"
             THEN [al EXCEPT !.pc = "not_ready"]
             ELSE [al EXCEPT !.pc = "body"]
    /\ UNCHANGED <<protocol, pvars, er, dc, aw, rs>>

\* throwing::invoke up to the resumption of the handle
AlInvoke ==
    /\ al.pc = "created"
    /\ al.mode = "invoke"
    /\ al' = IF is_noexcept_allocator(al.allocator) /\ al.handle = "null"
             THEN [al EXCEPT
                      !.pc = "invoked",
                      !.res = [live |-> TRUE,
                               m_value |->
                                   set_error(promised_value,
                                             error(not_enough_memory, errc))]]
             ELSE [al EXCEPT !.pc = "body"]
    /\ UNCHANGED <<protocol, pvars, er, dc, aw, rs>>

\* a statement of the body of inner
AlStatement ==
    /\ al.pc = "body"
    /\ al.steps < MaxSteps
    /\ al' = [al EXCEPT !.steps = @ + 1]
    /\ UNCHANGED <<protocol, pvars, er, dc, aw, rs>>

\* co_return value in inner
AlReturn ==
    /\ al.pc = "body"
    /\ \E v \in ReturnValues :
        al' = [al EXCEPT !.inner = set_value(@, v), !.pc = "suspended"]
    /\ UNCHANGED <<protocol, pvars, er, dc, aw, rs>>

\* co_yield exception in inner: make_exception_ptr allocates the capsule;
\* a null goes to set_exception, an exception leaves the body
AlRaise ==
    /\ al.pc = "body"
    /\ \E Type \in RaiseTypes, ok \in BOOLEAN :
        LET p == allocate(al.allocator, ok)
            cs == make_exception_ptr(al.caps, Type)
        IN  al' = IF p = "pointer"
                  THEN [al EXCEPT
                           !.caps = cs,
                           !.inner = set_exception(@, Len(cs), al.allocator),
                           !.pc = "suspended"]
                  ELSE IF p = "null"
                  THEN [al EXCEPT
                           !.inner = set_exception(@, NoCapsule,
                                                   al.allocator),
                           !.failed = "capsule",
                           !.pc = "suspended"]
                  ELSE unhandled_exception([al EXCEPT !.failed = "capsule"])
    /\ UNCHANGED <<protocol, pvars, er, dc, aw, rs>>

\* co_yield error in inner
AlRaiseError ==
    /\ al.pc = "body"
    /\ \E e \in Errors :
        al' = [al EXCEPT !.inner = set_error(@, e), !.pc = "suspended"]
    /\ UNCHANGED <<protocol, pvars, er, dc, aw, rs>>

\* throwing::await_ready returns true: await_resume, the outer body goes on
AlAwaitResume ==
    /\ al.pc = "suspended"
    /\ al.mode = "await"
    /\ has_value(al.inner)
    /\ al' = [al EXCEPT !.pc = "resumed"]
    /\ UNCHANGED <<protocol, pvars, er, dc, aw, rs>>

\* throwing::await_suspend: the outer body is left suspended
AlAwaitSuspend ==
    /\ al.mode = "await"
    /\ \/ al.pc = "not_ready"
       \/ al.pc = "suspended" /\ ~has_value(al.inner)
    /\ al' = IF is_noexcept_allocator(al.allocator) /\ al.handle = "null"
             THEN [al EXCEPT
                      !.outer = set_error(@, error(not_enough_memory, errc)),
                      !.pc = "failed"]
             ELSE IF is_rethrow(al.inner)
             THEN [al EXCEPT !.pc = "failed"]
             ELSE [al EXCEPT
                      !.outer = propagate(@, al.inner),
                      !.inner = propagated_from(@),
                      !.pc = "failed"]
    /\ UNCHANGED <<protocol, pvars, er, dc, aw, rs>>

\* throwing::invoke returns the promise's slot
AlInvokeReturn ==
    /\ al.pc = "suspended"
    /\ al.mode = "invoke"
    /\ al' = [al EXCEPT
                 !.res = [live |-> TRUE, m_value |-> move_construct(al.inner)],
                 !.inner = moved_from(@),
                 !.pc = "invoked"]
    /\ UNCHANGED <<protocol, pvars, er, dc, aw, rs>>

\* a statement of the outer body after the co_await
AlOuterStatement ==
    /\ al.pc = "resumed"
    /\ al.outerSteps < MaxSteps
    /\ al' = [al EXCEPT !.outerSteps = @ + 1]
    /\ UNCHANGED <<protocol, pvars, er, dc, aw, rs>>

InitAlloc ==
    /\ InitProtocol
    /\ InitPV
    /\ al \in {AlStart(allocator, mode) :
                  allocator \in {"void", "noexcept", "throwing"},
                  mode \in {"await", "invoke"}}
    /\ er = ErStart
    /\ dc = DcStart
    /\ aw = AwStart("variable")
    /\ rs = RsStart("result")

NextAlloc ==
    \/ AlCall
    \/ AlAwaitReady
    \/ AlInvoke
    \/ AlStatement
    \/ AlReturn
    \/ AlRaise
    \/ AlRaiseError
    \/ AlAwaitResume
    \/ AlAwaitSuspend
    \/ AlInvokeReturn
    \/ AlOuterStatement

SpecAlloc == InitAlloc /\ [][NextAlloc]_vars

(***************************************************************************)
(* SpecError: an error object is constructed from a code of a domain, its  *)
(* success, failure, bool conversion and message are evaluated, and it is  *)
(* raised with co_yield into a fresh slot.                                 *)
(***************************************************************************)
\* error::error(Code), error::error(int, const error_domain &)
ErConstruct ==
    /\ er.pc = "start"
    /\ \E d \in Domains, code \in -1 .. MaxCode :
        er' = [pc |-> "constructed", e |-> error(code, d),
               m_value |-> promised_value,
               success |-> error_success(error(code, d)),
               failure |-> error_failure(error(code, d)),
               bool |-> error_bool(error(code, d)),
               message |-> message(d, code)]
    /\ UNCHANGED <<protocol, pvars, al, dc, aw, rs>>

\* co_yield error: basic_promise_type::yield_value(const error &)
ErRaise ==
    /\ er.pc = "constructed"
    /\ er' = [er EXCEPT !.m_value = set_error(@, er.e), !.pc = "raised"]
    /\ UNCHANGED <<protocol, pvars, al, dc, aw, rs>>

\* the awaiter of the raised error moves the slot into its result
ErResult ==
    /\ er.pc = "raised"
    /\ er' = [er EXCEPT !.m_value = move_construct(@), !.pc = "result"]
    /\ UNCHANGED <<protocol, pvars, al, dc, aw, rs>>

NextError ==
    \/ ErConstruct
    \/ ErRaise
    \/ ErResult

SpecError == Init /\ [][NextError]_vars

(***************************************************************************)
(* SpecCast: detail::dyn_cast is called with the type id of a clause's     *)
(* parameter type (base), the address of an exception object and the type  *)
(* id of its most derived type, as catch_exception_object calls it;        *)
(* type_info_entries is the table the type id of the most derived type     *)
(* points to.                                                              *)
(***************************************************************************)
DynCast ==
    /\ dc.pc = "start"
    /\ \E base \in Types, most_derived \in Types, obj \in 1..MaxObjects :
        LET most_derived_pointer == [obj |-> obj, path |-> <<>>]
        IN  dc' = [pc |-> "returned", base |-> type_id(base),
                   most_derived |-> type_id(most_derived),
                   most_derived_pointer |-> most_derived_pointer,
                   result |-> dyn_cast(type_id(base), most_derived_pointer,
                                       type_id(most_derived)),
                   calls |-> dyn_cast_calls(type_id(base),
                                            type_id(most_derived)),
                   type_info_entries |-> type_information(most_derived)]
    /\ UNCHANGED <<protocol, pvars, al, er, aw, rs>>

NextCast == DynCast

SpecCast == Init /\ [][NextCast]_vars

(***************************************************************************)
(* SpecAwait: a fallible function `outer` evaluates up to MaxAwaits        *)
(* co_await expressions on computations of inner.  In mode "temporary"     *)
(* each one is `co_await inner()`, and the computation is destroyed at the *)
(* end of the expression; in mode "variable" outer keeps the computation   *)
(* it creates, `auto t = inner();`, and awaits it as an lvalue,            *)
(* `co_await t;`.  await_ready, await_suspend and await_resume are public  *)
(* members of throwing without ref-qualifier.                              *)
(* aw.st is where the coroutine of t stands: "none", "created", "running", *)
(* "final" (at its final suspend point) or "raised" (suspended by a        *)
(* co_yield).                                                              *)
(***************************************************************************)
\* inner(): get_return_object after initial_suspend, a new computation
AwCall ==
    /\ \/ aw.pc = "start"
       \/ aw.pc = "body" /\ aw.mode = "temporary"
    /\ aw.st = "none"
    /\ aw.awaits < MaxAwaits
    /\ aw' = [aw EXCEPT !.pc = "body", !.st = "created",
                        !.inner = promised_value, !.resumes = 0,
                        !.steps = 0]
    /\ UNCHANGED <<protocol, pvars, al, er, dc, rs>>

\* co_await t: throwing::await_ready calls m_handle.resume().  The resume
\* of a coroutine at its final suspend point is undefined: the call does
\* not return, or it returns and leaves the promise as it was
AwAwaitReady ==
    /\ aw.pc = "body"
    /\ aw.awaits < MaxAwaits
    /\ \/ /\ aw.st = "created"
          /\ aw' = [aw EXCEPT !.pc = "inner", !.st = "running",
                              !.resumes = @ + 1, !.awaits = @ + 1]
       \/ /\ aw.st = "final"
          /\ \E returns \in BOOLEAN :
              aw' = [aw EXCEPT !.pc = IF returns THEN "ready" ELSE "crashed",
                               !.resumes = @ + 1, !.awaits = @ + 1]
    /\ UNCHANGED <<protocol, pvars, al, er, dc, rs>>

\* a statement of the body of inner
AwStatement ==
    /\ aw.pc = "inner"
    /\ aw.steps < MaxSteps
    /\ aw' = [aw EXCEPT !.steps = @ + 1]
    /\ UNCHANGED <<protocol, pvars, al, er, dc, rs>>

\* co_return value in inner, then final_suspend
AwReturn ==
    /\ aw.pc = "inner"
    /\ \E v \in ReturnValues :
        aw' = [aw EXCEPT !.inner = set_value(@, v), !.st = "final",
                         !.pc = "ready"]
    /\ UNCHANGED <<protocol, pvars, al, er, dc, rs>>

\* co_yield exception in inner
AwRaise ==
    /\ aw.pc = "inner"
    /\ \E Type \in RaiseTypes :
        LET cs == make_exception_ptr(aw.caps, Type)
        IN  aw' = [aw EXCEPT !.caps = cs,
                             !.inner = set_exception(@, Len(cs), "void"),
                             !.st = "raised", !.pc = "ready"]
    /\ UNCHANGED <<protocol, pvars, al, er, dc, rs>>

\* co_yield error in inner
AwRaiseError ==
    /\ aw.pc = "inner"
    /\ \E e \in Errors :
        aw' = [aw EXCEPT !.inner = set_error(@, e), !.st = "raised",
                         !.pc = "ready"]
    /\ UNCHANGED <<protocol, pvars, al, er, dc, rs>>

\* co_yield rethrow in inner
AwRethrow ==
    /\ aw.pc = "inner"
    /\ aw' = [aw EXCEPT !.inner = rethrow(@), !.st = "raised", !.pc = "ready"]
    /\ UNCHANGED <<protocol, pvars, al, er, dc, rs>>

\* await_ready returned true: await_resume hands the value to the body of
\* outer, which goes on; a temporary is destroyed, a variable stays alive
AwAwaitResume ==
    /\ aw.pc = "ready"
    /\ has_value(aw.inner)
    /\ aw' = [aw EXCEPT !.pc = "body",
                        !.seen = Append(@, m_value(aw.inner)),
                        !.st = IF aw.mode = "temporary" THEN "none" ELSE @]
    /\ UNCHANGED <<protocol, pvars, al, er, dc, rs>>

\* await_ready returned false: await_suspend, outer is left suspended
AwAwaitSuspend ==
    /\ aw.pc = "ready"
    /\ ~has_value(aw.inner)
    /\ aw' = IF is_rethrow(aw.inner)
             THEN [aw EXCEPT !.pc = "failed"]
             ELSE [aw EXCEPT !.outer = propagate(@, aw.inner),
                             !.inner = propagated_from(@),
                             !.pc = "failed"]
    /\ UNCHANGED <<protocol, pvars, al, er, dc, rs>>

\* co_return in outer: return_value, then ~throwing of t
AwOuterReturn ==
    /\ aw.pc = "body"
    /\ aw.mode = "temporary" => aw.st = "none"
    /\ \E v \in ReturnValues :
        aw' = [aw EXCEPT !.outer = set_value(@, v), !.pc = "returned",
                         !.st = "none"]
    /\ UNCHANGED <<protocol, pvars, al, er, dc, rs>>

NextAwait ==
    \/ AwCall
    \/ AwAwaitReady
    \/ AwStatement
    \/ AwReturn
    \/ AwRaise
    \/ AwRaiseError
    \/ AwRethrow
    \/ AwAwaitResume
    \/ AwAwaitSuspend
    \/ AwOuterReturn

InitAwait ==
    /\ InitProtocol
    /\ InitPV
    /\ al = AlStart("void", "await")
    /\ er = ErStart
    /\ dc = DcStart
    /\ aw \in {AwStart(mode) : mode \in {"variable", "temporary"}}
    /\ rs = RsStart("result")

SpecAwait == InitAwait /\ [][NextAwait]_vars

(***************************************************************************)
(* SpecResult: a fallible function `outer` drives a computation of `inner` *)
(* whose body ends by co_return, by the raise of an exception, by the      *)
(* raise of a domain error of any code, or by co_yield rethrow.  In mode   *)
(* "result" outer builds a handle, `zpp::result r = inner();`, may call    *)
(* success(), failure() and operator bool on it, and awaits the handle,    *)
(* `co_await r;`.  In mode "await" outer awaits the computation itself,    *)
(* `co_await inner();`.                                                    *)
(***************************************************************************)
\* result::failure taken to report domain errors only
result_failure_errors(r) == has_error(r.m_value)

\* result::success and result::operator bool, result::failure
result_success(r) == has_value(r.m_value)
result_failure(r) == ~has_value(r.m_value)

\* result::result(throwing) calling throwing::invoke, or throwing::await_ready:
\* the coroutine of inner is resumed
RsResume ==
    /\ rs.pc = "start"
    /\ rs' = [rs EXCEPT !.pc = "body"]
    /\ UNCHANGED <<protocol, pvars, al, er, dc, aw>>

\* a statement of the body of inner
RsStatement ==
    /\ rs.pc = "body"
    /\ rs.steps < MaxSteps
    /\ rs' = [rs EXCEPT !.steps = @ + 1]
    /\ UNCHANGED <<protocol, pvars, al, er, dc, aw>>

\* co_return value in inner
RsReturn ==
    /\ rs.pc = "body"
    /\ \E v \in ReturnValues :
        rs' = [rs EXCEPT !.inner = set_value(@, v), !.ended = "return",
                         !.pc = "suspended"]
    /\ UNCHANGED <<protocol, pvars, al, er, dc, aw>>

\* co_yield exception in inner
RsRaise ==
    /\ rs.pc = "body"
    /\ \E Type \in RaiseTypes :
        LET cs == make_exception_ptr(rs.caps, Type)
        IN  rs' = [rs EXCEPT !.caps = cs,
                             !.inner = set_exception(@, Len(cs), "void"),
                             !.ended = "exception", !.pc = "suspended"]
    /\ UNCHANGED <<protocol, pvars, al, er, dc, aw>>

\* co_yield error in inner: an error of any domain of the users, with its
\* success code or with another code
RsRaiseError ==
    /\ rs.pc = "body"
    /\ \E code \in {0, 1, not_enough_memory},
          domain \in UserDomains \cup {status_code} :
        rs' = [rs EXCEPT !.inner = set_error(@, error(code, domain)),
                         !.ended = "error", !.pc = "suspended"]
    /\ UNCHANGED <<protocol, pvars, al, er, dc, aw>>

\* co_yield rethrow in inner
RsRethrow ==
    /\ rs.pc = "body"
    /\ rs' = [rs EXCEPT !.inner = rethrow(@), !.ended = "rethrow",
                        !.pc = "suspended"]
    /\ UNCHANGED <<protocol, pvars, al, er, dc, aw>>

\* throwing::invoke returns the slot of the promise, result::result moves
\* it into the handle
RsInvokeReturn ==
    /\ rs.pc = "suspended"
    /\ rs.mode = "result"
    /\ rs' = [rs EXCEPT
                 !.res = [live |-> TRUE, m_value |-> move_construct(rs.inner)],
                 !.inner = moved_from(@),
                 !.held = move_construct(rs.inner),
                 !.pc = "handle"]
    /\ UNCHANGED <<protocol, pvars, al, er, dc, aw>>

\* r.success(), r.failure() and static_cast<bool>(r)
RsObserve ==
    /\ rs.pc = "handle"
    /\ rs' = [rs EXCEPT !.success = result_success(rs.res),
                        !.failure = result_failure(rs.res),
                        !.bool = result_success(rs.res),
                        !.observed = rs.res.m_value,
                        !.pc = "observed"]
    /\ UNCHANGED <<protocol, pvars, al, er, dc, aw>>

\* co_await r: result::operator co_await is a coroutine of its own, resumed
\* by await_ready; it propagates from the slot of the handle, or returns
\* its value
RsCoAwait ==
    /\ rs.pc \in {"handle", "observed"}
    /\ rs' = IF ~has_value(rs.res.m_value)
             THEN [rs EXCEPT
                      !.awaiter = propagate(@, rs.res.m_value),
                      !.res.m_value = propagated_from(@),
                      !.pc = "ready"]
             ELSE [rs EXCEPT
                      !.awaiter = set_value(@, m_value(rs.res.m_value)),
                      !.pc = "ready"]
    /\ UNCHANGED <<protocol, pvars, al, er, dc, aw>>

\* co_await inner(): await_ready has resumed inner, which has suspended
RsAwaitReady ==
    /\ rs.pc = "suspended"
    /\ rs.mode = "await"
    /\ rs' = [rs EXCEPT !.awaiter = rs.inner, !.pc = "ready"]
    /\ UNCHANGED <<protocol, pvars, al, er, dc, aw>>

\* await_ready returned true: await_resume, the body of outer goes on
RsAwaitResume ==
    /\ rs.pc = "ready"
    /\ has_value(rs.awaiter)
    /\ rs' = [rs EXCEPT !.seen = Append(@, m_value(rs.awaiter)),
                        !.pc = "resumed"]
    /\ UNCHANGED <<protocol, pvars, al, er, dc, aw>>

\* await_ready returned false: await_suspend, outer is left suspended
RsAwaitSuspend ==
    /\ rs.pc = "ready"
    /\ ~has_value(rs.awaiter)
    /\ rs' = IF is_rethrow(rs.awaiter)
             THEN [rs EXCEPT !.pc = "failed"]
             ELSE [rs EXCEPT !.outer = propagate(@, rs.awaiter),
                             !.awaiter = propagated_from(@),
                             !.pc = "failed"]
    /\ UNCHANGED <<protocol, pvars, al, er, dc, aw>>

\* a statement of the body of outer after the co_await
RsOuterStatement ==
    /\ rs.pc = "resumed"
    /\ rs.outerSteps < MaxSteps
    /\ rs' = [rs EXCEPT !.outerSteps = @ + 1]
    /\ UNCHANGED <<protocol, pvars, al, er, dc, aw>>

InitResult ==
    /\ InitProtocol
    /\ InitPV
    /\ al = AlStart("void", "await")
    /\ er = ErStart
    /\ dc = DcStart
    /\ aw = AwStart("variable")
    /\ rs \in {RsStart(mode) : mode \in {"result", "await"}}

NextResult ==
    \/ RsResume
    \/ RsStatement
    \/ RsReturn
    \/ RsRaise
    \/ RsRaiseError
    \/ RsRethrow
    \/ RsInvokeReturn
    \/ RsObserve
    \/ RsCoAwait
    \/ RsAwaitReady
    \/ RsAwaitResume
    \/ RsAwaitSuspend
    \/ RsOuterStatement

SpecResult == InitResult /\ [][NextResult]_vars

(***************************************************************************)
(* The vocabulary of the properties: the states of a slot read from its    *)
(* representation, the failure the try clause ended with, and the clause   *)
(* the dispatch rules select for it.                                       *)
(***************************************************************************)
IsValue(s) == s.dom = NoDomain /\ s.active = "value"
IsException(s) ==
    s.dom = throwing_exception /\ s.active = "exception" /\ s.pl # NoCapsule
IsRethrowPending(s) ==
    s.dom = throwing_exception /\ s.active = "exception" /\ s.pl = NoCapsule
IsError(s) == s.dom \in UserDomains /\ s.active = "code"
IsFailure(s) == IsException(s) \/ IsError(s)

\* slot s holds capsule c
Holds(s, c) == s.active = "exception" /\ s.pl = c

\* try_catch has returned to its caller
Done == frames[Main].pc = "done" /\ outcome.live /\ status = "running"

\* the try clause ended with a value / with an exception or a domain error
ThrownValue == thrown.live /\ IsValue(thrown.m_value)
ThrownFailure == thrown.live /\ IsFailure(thrown.m_value)
ThrownException == thrown.live /\ IsException(thrown.m_value)
ThrownType == caps[thrown.m_value.pl].type

\* the declared bases of a type, and the types reached by following the
\* declarations from the types of S at most n times
Bases(t) == {define_exception[t][i] : i \in 1..Len(define_exception[t])}

RECURSIVE Up(_, _)
Up(S, n) ==
    IF n = 0 THEN S ELSE Up(S \cup UNION {Bases(t) : t \in S}, n - 1)

Ancestors(T) == Up({T}, Cardinality(Types))

\* clause i is one the dispatch rules let handle the failure of the try
\* clause
Selects(i) ==
    CASE clauses[i].kind = "all" -> TRUE
      [] clauses[i].kind = "error" -> IsError(thrown.m_value)
      [] OTHER -> /\ IsException(thrown.m_value)
                  /\ clauses[i].type \in Ancestors(ThrownType)

Selected == {i \in 1..Len(clauses) : Selects(i)}
Earlier(i) == {j \in Selected : j < i}
InvokedClauses == {invoked[k].clause : k \in 1..Len(invoked)}

\* the capsule of slot s, when it holds one, has not been destroyed
Intact(s) ==
    IsException(s) => (caps[s.pl].alive /\ caps[s.pl].dtors = 0)

(***************************************************************************)
(* C1: when the try clause completes with a value v, no catch clause is    *)
(* ever invoked, whatever the clause list, and the driver returns v.       *)
(***************************************************************************)
C1_ValueReturnedUnchanged ==
    ThrownValue =>
        /\ invoked = <<>>
        /\ status = "running"
        /\ frames[Main].pc = "done" =>
               /\ outcome.live
               /\ IsValue(outcome.m_value)
               /\ outcome.m_value.pl = thrown.m_value.pl

C1_Witness ==
    /\ Done
    /\ ThrownValue
    /\ thrown.m_value.pl = 1337
    /\ outcome.m_value.pl = 1337
    /\ Len(clauses) = 2
    /\ clauses[2].kind = "all"

(***************************************************************************)
(* C2: with an exception of runtime type D active, a clause declared for   *)
(* type T is invoked only if T is D or a base of D by the declarations,    *)
(* directly or transitively, and it is invoked whenever that holds and no  *)
(* earlier clause takes the exception; otherwise dispatch moves on.        *)
(***************************************************************************)
C2_TypedClauseMatchesDeclaredBases ==
    \A i \in 1..Len(clauses) :
        (ThrownException /\ clauses[i].kind = "typed") =>
            /\ i \in InvokedClauses =>
                   clauses[i].type \in Ancestors(ThrownType)
            /\ (Done /\ Earlier(i) = {}) =>
                   (i \in InvokedClauses <=>
                        clauses[i].type \in Ancestors(ThrownType))

\* a clause for B took a D, whose declared bases reach B through C only
C2_Witness ==
    /\ Done
    /\ ThrownException
    /\ ThrownType = "D"
    /\ \E i \in 1..Len(clauses) :
        /\ clauses[i].kind = "typed"
        /\ clauses[i].type = "B"
        /\ "B" \notin Bases("D")
        /\ i \in InvokedClauses

(***************************************************************************)
(* C3: clauses are tested in the order given and the first one that takes  *)
(* the failure is the one invoked; at most one clause is invoked per       *)
(* dispatch, even when a later clause would take the failure as well.      *)
(***************************************************************************)
C3_FirstMatchingClauseOnly ==
    /\ Len(invoked) <= 1
    /\ (ThrownFailure /\ invoked # <<>>) =>
           /\ Selects(invoked[1].clause)
           /\ Earlier(invoked[1].clause) = {}
    /\ (ThrownFailure /\ Done /\ Selected # {}) => invoked # <<>>

C3_Witness ==
    /\ Done
    /\ ThrownFailure
    /\ Len(invoked) = 1
    /\ invoked[1].clause = 1
    /\ 2 \in Selected

(***************************************************************************)
(* C5: when the matched clause invokes rethrow, the outcome of the         *)
(* dispatch is the original failure, the same capsule or the same domain   *)
(* and code, delivered to the caller of the driver.                        *)
(***************************************************************************)
C5_RethrowKeepsOriginalFailure ==
    (Done /\ ThrownFailure /\ clauseEnd.live
          /\ IsRethrowPending(clauseEnd.m_value)) =>
        /\ Len(invoked) = 1
        /\ outcome.m_value = thrown.m_value
        /\ Intact(outcome.m_value)

C5_Witness ==
    /\ Done
    /\ ThrownException
    /\ clauseEnd.live
    /\ IsRethrowPending(clauseEnd.m_value)
    /\ outcome.m_value = thrown.m_value

(***************************************************************************)
(* C6: when the matched clause itself fails with a new exception or        *)
(* domain error, the outcome of the dispatch is that new failure and not   *)
(* the original one.                                                       *)
(***************************************************************************)
C6_ClauseFailureReplacesOriginal ==
    (Done /\ ThrownFailure /\ clauseEnd.live
          /\ IsFailure(clauseEnd.m_value)) =>
        /\ outcome.m_value = clauseEnd.m_value
        /\ Intact(outcome.m_value)
        /\ IsException(thrown.m_value) =>
               /\ outcome.m_value.pl # thrown.m_value.pl
               /\ ~caps[thrown.m_value.pl].alive

C6_Witness ==
    /\ Done
    /\ ThrownException
    /\ clauseEnd.live
    /\ IsException(clauseEnd.m_value)
    /\ outcome.m_value = clauseEnd.m_value
    /\ caps[outcome.m_value.pl].type # ThrownType

(***************************************************************************)
(* C7: when no clause takes the failure, no clause is invoked and the      *)
(* outcome is the same failure; the driver reports it to its caller as a   *)
(* failure outcome and does not crash.                                     *)
(***************************************************************************)
C7_UnmatchedFailurePropagates ==
    (ThrownFailure /\ clauses # <<>> /\ Selected = {}) =>
        /\ invoked = <<>>
        /\ status = "running"
        /\ frames[Main].pc = "done" =>
               /\ outcome.live
               /\ outcome.m_value = thrown.m_value
               /\ Intact(outcome.m_value)

C7_Witness ==
    /\ Done
    /\ ThrownException
    /\ Selected = {}
    /\ Len(clauses) = 2
    /\ outcome.m_value = thrown.m_value

(***************************************************************************)
(* C8: a catch-all clause takes every failure that reaches it, exception   *)
(* or domain error, and a clause list is accepted only with the catch-all  *)
(* in final position.                                                      *)
(***************************************************************************)
C8_CatchAllTakesEveryFailure ==
    /\ \A i \in 1..Len(clauses) :
           clauses[i].kind = "all" => i = Len(clauses)
    /\ (Done /\ ThrownFailure /\ clauses[Len(clauses)].kind = "all"
             /\ Earlier(Len(clauses)) = {}) =>
           /\ Len(invoked) = 1
           /\ invoked[1].clause = Len(clauses)

C8_Witness ==
    /\ Done
    /\ thrown.live
    /\ IsError(thrown.m_value)
    /\ Len(clauses) = 2
    /\ clauses[1].kind = "typed"
    /\ clauses[2].kind = "all"
    /\ invoked # <<>>
    /\ invoked[1].clause = 2

(***************************************************************************)
(* C4: once an awaited nested computation has failed, the awaiting body    *)
(* executes no further statement, and the slot of the awaiting             *)
(* computation equals the slot the nested computation failed with: same    *)
(* kind, same capsule for an exception, same domain and code for an        *)
(* error.                                                                  *)
(***************************************************************************)
AwaitFailed(f) == frames[f].pc = "failed"

\* the awaiting body stays where the failed await left it
C4_NoStatementAfterFailedAwait ==
    \A f \in DOMAIN frames :
        AwaitFailed(f) =>
            \/ f \notin DOMAIN frames'
            \/ frames'[f].st = "created"
            \/ /\ frames'[f].pc = "failed"
               /\ frames'[f].st = "suspended"
               /\ frames'[f].steps = frames[f].steps

\* the awaiting computation ended with the failure of the nested one
C4_OutcomeIsNestedFailure ==
    \A f \in DOMAIN frames :
        (AwaitFailed(f) /\ f \notin consumed) =>
            frames[f].m_value = frames[f].awaited

C4_Claim ==
    [][C4_NoStatementAfterFailedAwait]_vars /\ []C4_OutcomeIsNestedFailure

\* the same, for nested computations that ended with an exception capsule
\* or an error: the part of C4 that the code does satisfy
C4_HoldsUnlessRethrow ==
    \A f \in DOMAIN frames :
        (AwaitFailed(f) /\ f \notin consumed
                        /\ ~IsRethrowPending(frames[f].awaited)) =>
            frames[f].m_value = frames[f].awaited

FrameSlots == DOMAIN frames
CatchResultSlots == {f \in DOMAIN frames : frames[f].catch_result.live}

\* how many slots hold capsule c
Holders(c) ==
    Cardinality({f \in FrameSlots : Holds(frames[f].m_value, c)})
    + Cardinality({f \in CatchResultSlots :
                      Holds(frames[f].catch_result.m_value, c)})
    + (IF tryResult.live /\ Holds(tryResult.m_value, c) THEN 1 ELSE 0)
    + (IF outcome.live /\ Holds(outcome.m_value, c) THEN 1 ELSE 0)

\* the slot at a place of `consumed`
SlotAt(p) ==
    IF p = TryResultPlace THEN tryResult.m_value
    ELSE IF p > 0 THEN frames[p].m_value
    ELSE frames[0 - p].catch_result.m_value

C10_OneOwner ==
    /\ \A c \in DOMAIN caps : Holders(c) <= 1
    /\ \A p \in consumed : \A c \in DOMAIN caps : ~Holds(SlotAt(p), c)

\* a step that propagates from place p leaves the capsule in the slot of
\* the running coroutine, which is the caller
C10_Transfer ==
    \A p \in consumed' \ consumed :
        IsException(SlotAt(p)) =>
            Holds(frames'[Top].m_value, SlotAt(p).pl)

\* the steps that read the slot of the awaited coroutine of f, the try
\* result, and the catch_result of f
ReadsChild(f) == AwaitResume(f) \/ AwaitSuspend(f) \/ InvokeReturn(f)
ReadsTryResult ==
    \/ CatchesNoThrow
    \/ \E f \in DOMAIN frames :
        \/ CatchesValue(f) \/ Catches(f)
        \/ CatchNext(f) \/ CatchNextNoThrow(f) \/ CatchUnmatched(f)
        \/ CatchInvoke(f) \/ CatchReturn(f)
        \/ CatchResultRethrow(f)
ReadsCatchResult(f) ==
    CatchResultRethrow(f) \/ CatchResultFailure(f) \/ CatchResultValue(f)

C10_NeverReadAgain ==
    /\ \A f \in DOMAIN frames :
        /\ frames[f].child \in consumed => ~ReadsChild(f)
        /\ (0 - f) \in consumed => ~ReadsCatchResult(f)
    /\ TryResultPlace \in consumed => ~ReadsTryResult

C10_ExclusiveOwnership ==
    []C10_OneOwner /\ [][C10_Transfer /\ C10_NeverReadAgain]_vars

\* a capsule raised two levels down has reached the outcome: it was
\* propagated at every await on the way
C10_Witness ==
    /\ Done
    /\ IsException(outcome.m_value)
    /\ Holders(outcome.m_value.pl) = 1
    /\ ThrownException
    /\ thrown.m_value.pl = outcome.m_value.pl
    /\ Selected = {}

(***************************************************************************)
(* Allocation failures (SpecAlloc).                                        *)
(***************************************************************************)
\* the slot holds the error not_enough_memory of std::errc, as its one
\* active member
IsNotEnoughMemory(s) ==
    s.dom = errc /\ s.active = "code" /\ s.pl = not_enough_memory

\* the allocator kind whose allocate reports a failure by returning null
Fallible == "noexcept"

C12_Claim ==
    al.failed = "capsule" =>
        al.pc # "terminated" /\ IsNotEnoughMemory(al.inner)

\* the part of C12 that holds: under a fallible allocator no allocation
\* failure terminates the process
C12_HoldsForFallible == al.allocator = Fallible => al.pc # "terminated"

\* C13: when the frame of a computation cannot be allocated under a
\* fallible allocator its body never executes; awaiting it leaves the
\* awaiting computation failed with not_enough_memory and suspended, none
\* of the statements after the co_await executed; the result of invoke
\* holds not_enough_memory.
C13_NoFrameIsNotEnoughMemory ==
    (al.allocator = Fallible /\ al.failed = "frame") =>
        /\ al.pc \in {"created", "not_ready", "failed", "invoked"}
        /\ al.steps = 0
        /\ al.inner = promised_value
        /\ al.outerSteps = 0
        /\ al.pc = "failed" => IsNotEnoughMemory(al.outer)
        /\ al.pc = "invoked" =>
               al.res.live /\ IsNotEnoughMemory(al.res.m_value)

C13_Witness ==
    /\ al.allocator = Fallible
    /\ al.failed = "frame"
    /\ al.mode = "await"
    /\ al.pc = "failed"
    /\ IsNotEnoughMemory(al.outer)

C13_WitnessInvoke ==
    /\ al.allocator = Fallible
    /\ al.failed = "frame"
    /\ al.mode = "invoke"
    /\ al.pc = "invoked"
    /\ IsNotEnoughMemory(al.res.m_value)

(***************************************************************************)
(* C14: a failure is never silently dropped.  At every await the awaiting  *)
(* computation ends with the exception or error of the awaited one, its    *)
(* capsule intact; the failure the try clause ended with is the outcome of *)
(* try_catch unless a clause was invoked on it; and a failure a clause     *)
(* ended with is the outcome.  No level replaces a failure by a value or   *)
(* by another failure.                                                     *)
(***************************************************************************)
C14_AwaitKeepsFailure ==
    \A f \in DOMAIN frames :
        (AwaitFailed(f) /\ f \notin consumed /\ IsFailure(frames[f].awaited))
            => /\ IsFailure(frames[f].m_value)
               /\ frames[f].m_value.dom = frames[f].awaited.dom
               /\ frames[f].m_value.pl = frames[f].awaited.pl
               /\ Intact(frames[f].m_value)

C14_DispatchKeepsFailure ==
    (Done /\ ThrownFailure) =>
        \/ invoked # <<>>
        \/ /\ IsFailure(outcome.m_value)
           /\ outcome.m_value.dom = thrown.m_value.dom
           /\ outcome.m_value.pl = thrown.m_value.pl
           /\ Intact(outcome.m_value)

C14_ClauseFailureIsOutcome ==
    (Done /\ clauseEnd.live /\ IsFailure(clauseEnd.m_value)) =>
        /\ IsFailure(outcome.m_value)
        /\ outcome.m_value.dom = clauseEnd.m_value.dom
        /\ outcome.m_value.pl = clauseEnd.m_value.pl

C14_FailureNeverDropped ==
    /\ C14_AwaitKeepsFailure
    /\ C14_DispatchKeepsFailure
    /\ C14_ClauseFailureIsOutcome

\* an error raised in a nested computation is held by the user body that
\* awaited it, no clause having been invoked
C14_Witness ==
    \E f \in DOMAIN frames :
        /\ AwaitFailed(f)
        /\ frames[f].kind = "user"
        /\ f \notin consumed
        /\ IsError(frames[f].awaited)
        /\ frames[f].m_value = frames[f].awaited
        /\ invoked = <<>>

(***************************************************************************)
(* C15: the state a promised_value is constructed in is never observed:    *)
(* the slot a result takes from a driven computation, and the slot of a    *)
(* computation suspended by a failed await, hold a value, a user error, an *)
(* exception or the rethrow marker.                                        *)
(***************************************************************************)
IsEmpty(s) == s.dom = throwing_error /\ s.active = "code"

Observable(s) ==
    IsValue(s) \/ IsError(s) \/ IsException(s) \/ IsRethrowPending(s)

C15_AwaitingSlotNotEmpty ==
    \A f \in DOMAIN frames :
        (AwaitFailed(f) /\ f \notin consumed) =>
            ~IsEmpty(frames[f].m_value) /\ Observable(frames[f].m_value)

C15_ResultSlotNotEmpty ==
    /\ (tryResult.live /\ TryResultPlace \notin consumed) =>
           ~IsEmpty(tryResult.m_value)
    /\ outcome.live => ~IsEmpty(outcome.m_value)
    /\ \A f \in CatchResultSlots :
           (0 - f) \notin consumed => ~IsEmpty(frames[f].catch_result.m_value)

C15_Claim == C15_AwaitingSlotNotEmpty /\ C15_ResultSlotNotEmpty

\* the part of C15 that holds: an awaiting computation is left Empty only
\* by an awaited computation that ended with the rethrow marker, or that
\* was itself left Empty
C15_HoldsUnlessRethrow ==
    \A f \in DOMAIN frames :
        (AwaitFailed(f) /\ f \notin consumed
                        /\ ~IsRethrowPending(frames[f].awaited)
                        /\ ~IsEmpty(frames[f].awaited)) =>
            ~IsEmpty(frames[f].m_value) /\ Observable(frames[f].m_value)

(***************************************************************************)
(* C16: after a move construction or a move assignment of a                *)
(* promised_value whose source held a value, an error or an exception, the *)
(* destination holds what the source held, and the source is reset to an   *)
(* empty identity: it holds no value, no user error and no capsule.        *)
(***************************************************************************)
Moves(x, y) == PVMoveConstruct(x, y) \/ PVMoveAssign(x, y)

Movable(s) == IsValue(s) \/ IsError(s) \/ IsException(s)

\* a slot that holds nothing: as constructed, or with a null capsule
SafeEmpty(s) == IsEmpty(s) \/ IsRethrowPending(s)

C16_DestinationHolds ==
    \A x, y \in PVNames :
        (Moves(x, y) /\ Movable(pv[y].m_value)) =>
            pv'[x].live /\ pv'[x].m_value = pv[y].m_value

C16_SourceReset ==
    \A x, y \in PVNames :
        (Moves(x, y) /\ Movable(pv[y].m_value)) =>
            SafeEmpty(pv'[y].m_value)

C16_Claim == [][C16_DestinationHolds /\ C16_SourceReset]_vars

\* the parts of C16 that hold: the destination holds what the source held,
\* and a source that held a capsule holds none afterwards
C16_HoldsForDestination ==
    [][/\ C16_DestinationHolds
       /\ \A x, y \in PVNames :
              (Moves(x, y) /\ IsException(pv[y].m_value)) =>
                  IsRethrowPending(pv'[y].m_value)]_vars

(***************************************************************************)
(* Errors and their domains (SpecError).                                   *)
(***************************************************************************)
\* the two domains the library keeps for itself
Sentinels == {throwing_error, throwing_exception}

\* the error has been raised into the slot
Raised == er.pc \in {"raised", "result"}

\* C17: the domain of an error user code can raise is never one of the two
\* sentinel domains: after raising any error e the slot reports has_error,
\* neither has_exception nor has_value, and get_error returns e's code and
\* domain.
C17_Claim ==
    Raised =>
        /\ has_error(er.m_value)
        /\ ~has_exception(er.m_value)
        /\ ~has_value(er.m_value)
        /\ get_error(er.m_value) = er.e

\* the part of C17 that holds: an error of any other domain is reported as
\* an error and read back unchanged
C17_HoldsOutsideSentinels ==
    (Raised /\ er.e.domain \notin Sentinels) =>
        /\ has_error(er.m_value)
        /\ ~has_exception(er.m_value)
        /\ ~has_value(er.m_value)
        /\ get_error(er.m_value) = er.e

\* C20: for every domain and every code, error::success is true exactly
\* when the code is the success code the domain was created with,
\* error::failure is its negation and the conversion to bool equals
\* success.
C20_SuccessIffDesignatedCode ==
    er.pc # "start" =>
        /\ er.success <=> (er.e.code = success_code[er.e.domain])
        /\ er.failure <=> ~er.success
        /\ er.bool <=> er.success

\* code 1 of a domain created with success code 1 is a success, code 0 of
\* that domain would not be
C20_Witness ==
    /\ er.pc = "constructed"
    /\ er.e.domain = status_code
    /\ er.e.code = 1
    /\ er.success
    /\ ~er.failure
    /\ er.bool

(***************************************************************************)
(* C18: a computation is lazily started.  From the call that creates it    *)
(* until it is first driven, by an await or by invoke, it is suspended at  *)
(* its initial suspend point: none of its statements has executed, it has  *)
(* created no computation and set no slot, and it is not executing.        *)
(***************************************************************************)
\* the coroutines, main excepted
Computations == DOMAIN frames \ {Main}

OnStack(f) == \E i \in 1..Len(stack) : stack[i] = f

NeverDriven(f) == frames[f].resumes = 0

C18_LazilyStarted ==
    \A f \in Computations :
        NeverDriven(f) =>
            /\ frames[f].st = "created"
            /\ ~OnStack(f)
            /\ frames[f].steps = 0
            /\ frames[f].child = NoFrame
            /\ frames[f].m_value = promised_value
            /\ frames[f].pc \in {"body", "start"}

\* a computation was created by a body that went on executing, and has
\* not been driven yet
C18_Witness ==
    \E f \in DOMAIN frames :
        /\ InBody(f)
        /\ frames[f].steps > 0
        /\ frames[f].child # NoFrame
        /\ NeverDriven(frames[f].child)
        /\ frames[frames[f].child].steps = 0

(***************************************************************************)
(* C19: nested computations execute in the order in which they are         *)
(* awaited, each one to completion before the awaiting body goes on, and   *)
(* at most one body executes at any instant.                               *)
(***************************************************************************)
\* the body of f is the one executing
Executing(f) == OnStack(f) /\ Top = f /\ frames[f].st = "running"

NotStarted(f) == frames[f].st = "created"
Completed(f) == frames[f].st = "done"
\* suspended by its own raise, or abandoned by a failed await
SuspendedInFailure(f) ==
    frames[f].st = "suspended" /\ frames[f].pc \in {"raised", "failed"}

\* f is inside a co_await or an invoke, waiting for the computation it
\* drives, which is the next one on the stack
Waiting(f) ==
    /\ frames[f].st = "running"
    /\ frames[f].pc \in {"awaiting", "invoking"}
    /\ \E i \in 1..(Len(stack) - 1) :
           stack[i] = f /\ stack[i + 1] = frames[f].child

C19_AtMostOneBody ==
    Cardinality({f \in Computations : Executing(f)}) <= 1

\* C19 as stated: every computation other than the executing one is not
\* yet started, completed, suspended in a failure or abandoned
C19_Claim ==
    /\ C19_AtMostOneBody
    /\ \A f \in Computations :
           \/ Executing(f)
           \/ NotStarted(f)
           \/ Completed(f)
           \/ SuspendedInFailure(f)

C19_States ==
    /\ C19_AtMostOneBody
    /\ \A f \in Computations :
           \/ Executing(f)
           \/ NotStarted(f)
           \/ Completed(f)
           \/ SuspendedInFailure(f)
           \/ Waiting(f)

\* a computation starts in the step in which it is awaited or invoked, by
\* the body that was executing, and is the one executing afterwards
C19_StartedWhenAwaited ==
    \A g \in Computations :
        (NotStarted(g) /\ g \in DOMAIN frames' /\ frames'[g].st = "running")
            => /\ frames[Top].child = g
               /\ stack' = Append(stack, g)
               /\ frames'[Top].pc \in {"awaiting", "invoking"}

\* only the executing body takes a step, and a body that waits goes on
\* only once the computation it drives has completed or failed
C19_RunsToCompletion ==
    /\ \A f \in DOMAIN frames :
           (f \in DOMAIN frames' /\ f # Top /\ ~NotStarted(f)) =>
               /\ frames'[f].steps = frames[f].steps
               /\ frames'[f].pc = frames[f].pc
    /\ Len(stack') < Len(stack) =>
           /\ stack' = Pop
           /\ Top \in Computations =>
                  \/ Top \notin DOMAIN frames'
                  \/ frames'[Top].st \in {"done", "suspended"}

C19_OneBodyInAwaitOrder ==
    []C19_States /\ [][C19_StartedWhenAwaited /\ C19_RunsToCompletion]_vars

\* a nested computation executes a statement while the body that awaits
\* it, itself awaited, waits
C19_Witness ==
    \E f, g \in Computations :
        /\ frames[f].kind = "user"
        /\ Waiting(f)
        /\ frames[f].child = g
        /\ frames[g].kind = "user"
        /\ Executing(g)
        /\ frames[g].steps > 0

(***************************************************************************)
(* dyn_cast (SpecCast).                                                    *)
(***************************************************************************)
\* the paths of declared bases that lead from type T to target: each type
\* of a path is a declared base of the one before it, the last is target
RECURSIVE DeclaredPaths(_, _)
DeclaredPaths(T, target) ==
    IF T = target THEN {<<>>}
    ELSE UNION {{<<b>> \o p : p \in DeclaredPaths(b, target)} : b \in Bases(T)}

\* where b stands among the declared bases of T
Position(T, b) ==
    CHOOSE i \in 1..Len(define_exception[T]) : define_exception[T][i] = b

\* the type a path from T has reached before its k-th step
Before(T, p, k) == IF k = 1 THEN T ELSE p[k - 1]

\* path p comes before path q in a depth-first search from T that takes
\* the bases in declaration order
Precedes(T, p, q) ==
    \E k \in 1..Len(p) :
        /\ k <= Len(q)
        /\ \A j \in 1..(k - 1) : p[j] = q[j]
        /\ p[k] # q[k]
        /\ Position(Before(T, p, k), p[k]) < Position(Before(T, p, k), q[k])

FirstPath(T, target) ==
    CHOOSE p \in DeclaredPaths(T, target) :
        \A q \in DeclaredPaths(T, target) \ {p} : Precedes(T, p, q)

Returned == dc.pc = "returned"

\* C22: dyn_cast returns the pointer unchanged when the type is the target;
\* otherwise the pointer adjusted by the conversions along the first path
\* to the target in a depth-first search of the declared bases in
\* declaration order; null exactly when no path of declared bases leads to
\* the target.
C22_DynCastFirstPathOrNull ==
    Returned =>
        LET P == DeclaredPaths(dc.most_derived, dc.base)
        IN  /\ dc.most_derived = dc.base =>
                   dc.result = dc.most_derived_pointer
            /\ (dc.result = NullPtr) <=> (P = {})
            /\ (P = {}) <=> (dc.base \notin Ancestors(dc.most_derived))
            /\ P # {} =>
                   /\ dc.result.obj = dc.most_derived_pointer.obj
                   /\ dc.result.path =
                          dc.most_derived_pointer.path
                          \o FirstPath(dc.most_derived, dc.base)

\* D converts to A through its second base C, the first one (X) leading
\* nowhere
C22_Witness ==
    /\ Returned
    /\ dc.most_derived = "D"
    /\ dc.base = "A"
    /\ dc.result.obj = dc.most_derived_pointer.obj
    /\ dc.result.path = <<"C", "B", "A">>

\* C23: when two distinct paths of declared bases lead to the target,
\* dyn_cast returns the pointer adjusted along the first of them, the
\* search ends with the call that reaches the target, so that no later
\* path is explored, and the result is an ordinary non-null pointer: no
\* ambiguity is reported.
C23_DiamondFirstPathWins ==
    (Returned /\ Cardinality(DeclaredPaths(dc.most_derived, dc.base)) >= 2)
        => /\ dc.result # NullPtr
           /\ dc.result.obj = dc.most_derived_pointer.obj
           /\ dc.result.path = FirstPath(dc.most_derived, dc.base)
           /\ dc.calls[Len(dc.calls)] = dc.base
           /\ Cardinality({i \in 1..Len(dc.calls) : dc.calls[i] = dc.base})
                  = 1

\* M reaches A through L and through R: the sub-object reached is the A of
\* L, and R is never visited
C23_Witness ==
    /\ Returned
    /\ dc.most_derived = "M"
    /\ dc.base = "A"
    /\ dc.result.path = <<"L", "A">>
    /\ dc.calls = <<"M", "L", "A">>

(***************************************************************************)
(* C21: a computation destroyed before it was driven to completion is      *)
(* abandoned.  Once the computation that holds it has let go of it, it     *)
(* does not exist any more and nothing of it executes; the capsule its     *)
(* slot holds, if any, goes with it; and the step that destroys it         *)
(* reports no failure to any computation that remains.                     *)
(***************************************************************************)
\* the computations destroyed by a step
Destroyed == {f \in Computations : f \notin DOMAIN frames'}

\* those of them that had not completed: never driven, or suspended at a
\* raise or at a failed await
Abandoned == {f \in Destroyed : frames[f].st # "done"}

\* every computation is held by the frame created before it, and only
\* computations that exist are executing
C21_HeldOrGone ==
    /\ \A f \in Computations : frames[f - 1].child = f
    /\ \A i \in 1..Len(stack) : stack[i] \in DOMAIN frames

C21_NothingExecutes ==
    \A f \in Abandoned :
        /\ ~OnStack(f)
        /\ \A i \in 1..Len(stack') : stack'[i] # f

\* a capsule that no slot holds after the step was destroyed by it
C21_PayloadDiscarded ==
    Abandoned # {} =>
        \A c \in DOMAIN caps :
            (caps[c].alive /\ \E f \in Abandoned : Holds(frames[f].m_value, c))
                => \/ ~caps'[c].alive /\ caps'[c].dtors = 1
                   \/ tryResult'.live /\ Holds(tryResult'.m_value, c)
                   \/ outcome'.live /\ Holds(outcome'.m_value, c)
                   \/ \E h \in DOMAIN frames' :
                          /\ frames'[h].catch_result.live
                          /\ Holds(frames'[h].catch_result.m_value, c)

\* the computations that remain keep their slots, but for the value the
\* executing one may complete with
C21_NoFailureReported ==
    Abandoned # {} =>
        /\ status' = status
        /\ \A h \in DOMAIN frames' :
               \/ frames'[h].m_value = frames[h].m_value
               \/ IsValue(frames'[h].m_value)
        /\ \A f \in Abandoned :
               NeverDriven(f) =>
                   /\ IsEmpty(frames[f].m_value)
                   /\ \/ tryResult'.m_value = tryResult.m_value
                      \/ /\ frames[Top].child # f
                         /\ tryResult'.m_value = frames[frames[Top].child].m_value
                   /\ \/ outcome'.m_value = outcome.m_value
                      \/ /\ frames[Top].child # f
                         /\ outcome'.m_value = frames[frames[Top].child].m_value

C21_DestroyedIsAbandoned ==
    /\ []C21_HeldOrGone
    /\ [][/\ C21_NothingExecutes
          /\ C21_PayloadDiscarded
          /\ C21_NoFailureReported]_vars

\* a body has returned without awaiting the computation it had created: the
\* co_return has destroyed it undriven, and the body completed with its value
C21_Witness ==
    \E f \in Computations :
        /\ frames[f].abandoned > 0
        /\ frames[f].st = "done"
        /\ frames[f].child = NoFrame
        /\ f = Len(frames)
        /\ IsValue(frames[f].m_value)
        /\ status = "running"

(***************************************************************************)
(* C24: the clause kinds are discriminated by the kind of the active       *)
(* failure.  A domain-error clause is invoked only when the try clause     *)
(* ended with a domain error, and then with that error's code and domain;  *)
(* while a domain error is active the first clause that is not a typed     *)
(* one is the clause invoked, and a typed clause is never invoked.         *)
(***************************************************************************)
\* the Error a slot in ErrorState holds
ActiveError(s) == [domain |-> s.dom, code |-> s.pl]

KindInvoked(k) == clauses[invoked[k].clause].kind

\* an error clause is invoked on a domain error only, and receives it
C24_ErrorClauseOnErrorOnly ==
    \A k \in 1..Len(invoked) :
        KindInvoked(k) = "error" =>
            /\ IsError(thrown.m_value)
            /\ invoked[k].error = ActiveError(thrown.m_value)

\* a typed clause is invoked on an exception only
C24_TypedClauseOnExceptionOnly ==
    \A k \in 1..Len(invoked) :
        KindInvoked(k) = "typed" =>
            /\ IsException(thrown.m_value)
            /\ ~IsError(thrown.m_value)

\* an error clause is not skipped while a domain error is active
C24_ErrorClauseNotSkipped ==
    (thrown.live /\ IsError(thrown.m_value) /\ invoked # <<>>) =>
        /\ KindInvoked(1) # "typed"
        /\ \A i \in 1..Len(clauses) :
               i < invoked[1].clause => clauses[i].kind = "typed"

C24_Claim ==
    /\ C24_ErrorClauseOnErrorOnly
    /\ C24_TypedClauseOnExceptionOnly
    /\ C24_ErrorClauseNotSkipped

\* the part of C24 that holds: the discrimination is right whenever the try
\* clause ended with an exception or with a domain error
C24_HoldsForFailures ==
    (thrown.live /\ IsFailure(thrown.m_value)) => C24_Claim

(***************************************************************************)
(* C25: when the clause invoked on a failure completes with a value w, the *)
(* outcome of the dispatch is the value w; the failure the try clause      *)
(* ended with reaches no caller, and its capsule has been destroyed.       *)
(***************************************************************************)
ClauseCompleted ==
    /\ thrown.live
    /\ ~IsValue(thrown.m_value)
    /\ invoked # <<>>
    /\ clauseEnd.live
    /\ IsValue(clauseEnd.m_value)

C25_ClauseValueIsOutcome ==
    (Done /\ ClauseCompleted) =>
        /\ Len(invoked) = 1
        /\ IsValue(outcome.m_value)
        /\ outcome.m_value.pl = clauseEnd.m_value.pl
        /\ ~tryResult.live
        /\ IsException(thrown.m_value) =>
               /\ ~caps[thrown.m_value.pl].alive
               /\ caps[thrown.m_value.pl].dtors = 1
        /\ \A f \in DOMAIN frames : ~IsFailure(frames[f].m_value)

\* a throwing clause handled a raised exception and returned its value
C25_Witness ==
    /\ Done
    /\ ClauseCompleted
    /\ ThrownException
    /\ clauses[invoked[1].clause].throwing
    /\ clauses[invoked[1].clause].kind = "typed"
    /\ IsValue(outcome.m_value)
    /\ outcome.m_value.pl = clauseEnd.m_value.pl

\* the same for a clause that cannot throw, on a domain error
C25_WitnessNoThrow ==
    /\ Done
    /\ ClauseCompleted
    /\ IsError(thrown.m_value)
    /\ \A i \in 1..Len(clauses) : ~clauses[i].throwing
    /\ clauses[invoked[1].clause].kind = "error"
    /\ IsValue(outcome.m_value)

(***************************************************************************)
(* C26: when a computation awaited from inside the body of a catch clause  *)
(* invokes rethrow, the outcome of the dispatch is the failure the clause  *)
(* was handling: the same capsule, not destroyed, or the same domain and   *)
(* code, as when the clause body invokes rethrow itself (C5).              *)
(***************************************************************************)
OutcomeIsOriginalFailure ==
    /\ IsFailure(outcome.m_value)
    /\ outcome.m_value = thrown.m_value
    /\ Intact(outcome.m_value)

C26_Claim ==
    (Done /\ ThrownFailure /\ clauseEnd.live
          /\ IsRethrowPending(clauseEnd.awaited)) =>
        OutcomeIsOriginalFailure

\* what the code does instead: the outcome is the construction state of a
\* slot, the error (throwing_error, 0)
C26_OutcomeIsEmpty ==
    (Done /\ ThrownFailure /\ clauseEnd.live
          /\ IsRethrowPending(clauseEnd.awaited)) =>
        IsEmpty(outcome.m_value)

\* the dispatch has ended after such a clause
C26_Reached ==
    /\ Done
    /\ ThrownException
    /\ clauseEnd.live
    /\ IsRethrowPending(clauseEnd.awaited)

(***************************************************************************)
(* C27: every computation is resumed at most once between its creation and *)
(* its destruction, whatever sequence of awaits is applied to it; and once *)
(* its body has raised a failure, or an await of it has failed, no body is *)
(* continued past that point.                                              *)
(***************************************************************************)
C27_Claim == aw.resumes <= 1

\* the part of C27 that holds: a computation awaited as a temporary is
\* resumed at most once
C27_HoldsForTemporaries ==
    aw.mode = "temporary" => aw.resumes <= 1

\* and the part about failures: a computation suspended by its raise is not
\* resumed again and its body makes no step, and the body suspended by the
\* failed await makes none either
C27_FailedNeverContinued ==
    [][/\ aw.st = "raised" =>
              /\ aw'.st = "raised"
              /\ aw'.resumes = aw.resumes
              /\ aw'.steps = aw.steps
       /\ aw.pc = "failed" => aw' = aw]_vars

(***************************************************************************)
(* C28: whenever catches computes the (type_id, address) pair of an active *)
(* exception, the slot of the result holds a capsule that is alive: a slot *)
(* in RethrowPending state, or one whose capsule was moved out, is never   *)
(* dispatched on.                                                          *)
(***************************************************************************)
\* catches is about to evaluate m_value.exception().dynamic_object()
Dispatching ==
    /\ status = "running"
    /\ tryResult.live
    /\ tryResult.m_value.dom = throwing_exception
    /\ \/ Running(Main) /\ frames[Main].pc = "catches"
       \/ \E f \in DOMAIN frames :
              /\ Running(f)
              /\ frames[f].kind = "catches"
              /\ frames[f].pc = "start"

HoldsLiveCapsule(s) ==
    /\ IsException(s)
    /\ s.pl \in DOMAIN caps
    /\ caps[s.pl].alive

C28_Claim ==
    /\ Dispatching => HoldsLiveCapsule(tryResult.m_value)
    /\ status # "crashed"

\* the part of C28 that holds: the slot dispatched on holds a live capsule
\* unless the try clause ended with the rethrow marker itself, and then it
\* is in RethrowPending state; no slot is dispatched on after its capsule
\* was moved out
C28_HoldsUnlessRethrowInTry ==
    /\ Dispatching =>
           /\ TryResultPlace \notin consumed
           /\ tryResult.m_value = thrown.m_value
           /\ \/ HoldsLiveCapsule(tryResult.m_value)
              \/ IsRethrowPending(thrown.m_value)
    /\ status = "crashed" => IsRethrowPending(thrown.m_value)

(***************************************************************************)
(* C29: every call of propagate made by the await protocol and by the      *)
(* catch dispatch satisfies its precondition: the source slot holds a      *)
(* failure, an exception or a domain error, never a value, and the         *)
(* destination slot is still Empty.                                        *)
(***************************************************************************)
PropagatePrecondition(destination, source) ==
    /\ IsFailure(source)
    /\ ~IsValue(source)
    /\ IsEmpty(destination)

\* the weaker condition the calls do satisfy
PropagateNeverAValue(destination, source) ==
    /\ IsFailure(source) \/ IsEmpty(source) \/ IsRethrowPending(source)
    /\ ~IsValue(source)
    /\ IsEmpty(destination)

\* the step is a call destination.propagate(source), as made by
\* await_suspend, by the co_yield std::tie(rethrow, ...) of
\* catch_exception_object
PropagateCalls ==
    {<<frames[f].m_value, frames[frames[f].child].m_value>> :
        f \in {g \in DOMAIN frames :
                  /\ AwaitSuspend(g)
                  /\ ~IsRethrowPending(frames[frames[g].child].m_value)}}
    \cup {<<frames[f].m_value, tryResult.m_value>> :
             f \in {g \in DOMAIN frames :
                       CatchUnmatched(g) \/ CatchResultRethrow(g)}}
    \cup {<<frames[f].m_value, frames[f].catch_result.m_value>> :
             f \in {g \in DOMAIN frames : CatchResultFailure(g)}}

C29_Claim ==
    [][\A call \in PropagateCalls :
           PropagatePrecondition(call[1], call[2])]_vars

\* the part of C29 that holds: the source never holds a value and the
\* destination is Empty; the source is a failure unless it is a slot the
\* rethrow marker left Empty or RethrowPending
C29_HoldsNeverValue ==
    [][\A call \in PropagateCalls :
           PropagateNeverAValue(call[1], call[2])]_vars

(***************************************************************************)
(* C30: every capsule created by a raise is destroyed exactly once by the  *)
(* time the computations, slots and result handles involved are destroyed: *)
(* none is destroyed twice, none is alive without a slot that holds it,    *)
(* and none is left when the caller of try_catch has let go of the result. *)
(***************************************************************************)
Exited == frames[Main].pc = "exit" /\ status = "running"

C30_NeverTwice ==
    \A c \in DOMAIN caps :
        /\ caps[c].dtors <= 1
        /\ caps[c].alive <=> caps[c].dtors = 0

C30_NeverUnowned ==
    \A c \in DOMAIN caps : caps[c].alive => Holders(c) = 1

C30_NoneLeft ==
    Exited =>
        /\ ~outcome.live /\ ~tryResult.live
        /\ DOMAIN frames = {Main}
        /\ \A c \in DOMAIN caps : ~caps[c].alive /\ caps[c].dtors = 1

C30_CapsuleDestroyedOnce ==
    /\ C30_NeverTwice
    /\ C30_NeverUnowned
    /\ C30_NoneLeft

\* two capsules were created, that of the try clause and that of the clause
\* that handled it, and the run is over
C30_Witness ==
    /\ Exited
    /\ Len(caps) = 2
    /\ ThrownException
    /\ clauseEnd.live
    /\ IsException(clauseEnd.m_value)
    /\ \A c \in DOMAIN caps : caps[c].dtors = 1

\* the same for the slots driven directly (SpecPV): under construction,
\* set, propagate, move construction, move assignment and destruction a
\* capsule is destroyed at most once, and once every slot is destroyed
\* every capsule has been
C30_MovesDestroyOnce ==
    /\ \A c \in DOMAIN pvCaps :
           /\ pvCaps[c].dtors <= 1
           /\ pvCaps[c].alive <=> pvCaps[c].dtors = 0
    /\ (\A x \in PVNames : ~pv[x].live) =>
           \A c \in DOMAIN pvCaps : ~pvCaps[c].alive /\ pvCaps[c].dtors = 1

C30_WitnessMoves ==
    /\ \A x \in PVNames : ~pv[x].live
    /\ Len(pvCaps) = MaxCapsules

(***************************************************************************)
(* Vocabulary of the result-handle properties.                             *)
(***************************************************************************)
\* slot s holds a domain error of a domain that is not one of the two
\* sentinel domains
IsDomainError(s) ==
    /\ s.dom \notin {NoDomain, throwing_error, throwing_exception}
    /\ s.active = "code"

\* the handle has been built and success(), failure() have been called
Observed == rs.pc = "observed"

\* the step that calls success() and failure() on the handle
ObserveStep == rs.pc = "handle" /\ rs'.pc = "observed"

(***************************************************************************)
(* C31: for a result handle built from a driven computation, success() is  *)
(* true exactly when the body completed through return, failure() is the   *)
(* negation of success() in every state of the handle, and neither of them *)
(* changes the slot of the handle.                                         *)
(***************************************************************************)
C31_SuccessIffReturned ==
    Observed =>
        /\ rs.success = (rs.ended = "return")
        /\ rs.failure = ~rs.success
        /\ rs.bool = rs.success
        /\ rs.success = IsValue(rs.observed)
        /\ rs.ended = "exception" => IsException(rs.observed)
        /\ rs.ended = "error" => IsDomainError(rs.observed)

C31_SlotUnchanged == [][ObserveStep => rs'.res = rs.res]_vars

C31_SuccessAndFailure == []C31_SuccessIffReturned /\ C31_SlotUnchanged

C31_Witness ==
    /\ Observed
    /\ rs.ended = "exception"
    /\ rs.failure
    /\ ~rs.success

C31_WitnessSuccess ==
    /\ Observed
    /\ rs.ended = "return"
    /\ rs.success
    /\ ~rs.failure

(***************************************************************************)
(* C34: raising a domain error always makes the outcome a failure,         *)
(* whatever the code: the result handle reports failure() and the body of  *)
(* an awaiting caller is abandoned, also when the code is the success code *)
(* of its domain.                                                          *)
(***************************************************************************)
\* the body of the driven computation ended by raising a domain error
ErrorRaised == rs.ended = "error"

\* the code of the error in slot s is the success code of its domain
HoldsSuccessCode(s) ==
    /\ IsDomainError(s)
    /\ s.pl = (IF s.dom = status_code THEN 1 ELSE 0)

C34_RaisedErrorIsFailure ==
    ErrorRaised =>
        /\ Observed => (rs.failure /\ ~rs.success /\ IsDomainError(rs.observed))
        /\ rs.pc \notin {"resumed"}
        /\ rs.outerSteps = 0
        /\ rs.seen = <<>>
        /\ rs.pc = "failed" => IsDomainError(rs.outer)

C34_WitnessHandle ==
    /\ ErrorRaised
    /\ Observed
    /\ HoldsSuccessCode(rs.observed)
    /\ rs.failure

C34_WitnessAwait ==
    /\ ErrorRaised
    /\ rs.pc = "failed"
    /\ HoldsSuccessCode(rs.outer)
    /\ rs.outer.dom = status_code

(***************************************************************************)
(* C32: awaiting a result handle from inside a computation yields the      *)
(* stored value of the handle when it holds one, and otherwise makes the   *)
(* awaiting computation fail with the stored exception or error of the     *)
(* handle, unchanged, abandoning the rest of the awaiting body.            *)
(***************************************************************************)
\* the handle has been awaited and the co_await expression has ended
HandleAwaited == rs.mode = "result" /\ rs.pc \in {"resumed", "failed"}

\* the awaiting body went on with value v and nothing else
YieldedValue(v) ==
    /\ rs.pc = "resumed"
    /\ rs.seen = <<v>>
    /\ rs.outer = promised_value

\* the awaiting body was abandoned at the co_await
BodyAbandoned ==
    /\ rs.pc = "failed"
    /\ rs.seen = <<>>
    /\ rs.outerSteps = 0

\* the awaiting computation holds the failure the body of the handle ended
\* with
FailsAsHandle ==
    /\ BodyAbandoned
    /\ rs.ended # "return"
    /\ rs.outer.dom = rs.held.dom
    /\ rs.outer.active = rs.held.active
    /\ rs.outer.pl = rs.held.pl

C32_Claim ==
    HandleAwaited =>
        IF rs.held.dom = NoDomain
        THEN rs.ended = "return" /\ YieldedValue(rs.held.pl)
        ELSE FailsAsHandle

\* the same for a handle built from a body that ended by a return, by an
\* exception or by a domain error
C32_HoldsForFailures ==
    (HandleAwaited /\ rs.ended # "rethrow") =>
        IF rs.held.dom = NoDomain
        THEN rs.ended = "return" /\ YieldedValue(rs.held.pl)
        ELSE /\ FailsAsHandle
             /\ IsException(rs.outer) \/ IsDomainError(rs.outer)
             /\ IsException(rs.outer) =>
                    (rs.caps[rs.outer.pl].alive /\ rs.caps[rs.outer.pl].dtors = 0)

\* a handle built from a body that ended by co_yield rethrow: the awaiting
\* body is abandoned and the awaiting computation is left as constructed
C32_RethrowLeavesEmpty ==
    (HandleAwaited /\ rs.ended = "rethrow") =>
        /\ BodyAbandoned
        /\ IsEmpty(rs.outer)
        /\ rs.outer.pl = 0

C32_ReachedValue == HandleAwaited /\ rs.ended = "return" /\ rs.pc = "resumed"
C32_ReachedException == HandleAwaited /\ rs.ended = "exception"
C32_ReachedRethrow == HandleAwaited /\ rs.ended = "rethrow"

(***************************************************************************)
(* C33: when every clause of the list cannot itself fail and the list ends *)
(* with a catch-all clause, the dispatch on any failure invokes exactly    *)
(* one clause and the outcome of the driver is always a value, the result  *)
(* of the invoked clause: no failure escapes such a dispatch.              *)
(***************************************************************************)
\* no clause of the list can fail and the last one is a catch-all
NonThrowingList ==
    /\ clauses # <<>>
    /\ \A i \in 1..Len(clauses) : ~clauses[i].throwing
    /\ clauses[Len(clauses)].kind = "all"

C33_NoFailureEscapes ==
    (NonThrowingList /\ ThrownFailure) =>
        /\ Len(invoked) <= 1
        /\ status # "crashed"
        /\ invoked # <<>> => invoked[1].clause \in 1..Len(clauses)
        /\ outcome.live =>
               /\ Len(invoked) = 1
               /\ IsValue(outcome.m_value)
               /\ clauseEnd.live
               /\ outcome.m_value.pl = clauseEnd.m_value.pl
               /\ outcome.m_value.pl \in ClauseValues
               /\ ~tryResult.live

C33_Witness ==
    /\ Done
    /\ NonThrowingList
    /\ ThrownException
    /\ Len(invoked) = 1
    /\ clauses[invoked[1].clause].kind = "all"
    /\ Len(clauses) = 2
    /\ IsValue(outcome.m_value)

\* the same on a domain error
C33_WitnessError ==
    /\ Done
    /\ NonThrowingList
    /\ IsError(thrown.m_value)
    /\ Len(invoked) = 1
    /\ IsValue(outcome.m_value)

(***************************************************************************)
(* C35: every error domain the library provides returns a non-empty        *)
(* message for every code that is not the success code of the domain, and  *)
(* the message of a code is the entry the table of the domain gives for    *)
(* that code, an unlisted code getting the default entry of the domain.    *)
(***************************************************************************)
\* an error of domain d has been constructed with a code that is not the
\* success code of d, and its message has been asked for
NonSuccessOf(d) ==
    /\ er.pc # "start"
    /\ er.e.domain = d
    /\ er.e.code # 0

\* the entry of the table of std::errc for code c
ErrcEntry(c) ==
    IF c \in DOMAIN errc_messages THEN errc_messages[c]
    ELSE "Unspecified error"

C35_Claim ==
    \A d \in {throwing_error, throwing_exception, errc} :
        NonSuccessOf(d) =>
            /\ er.message # ""
            /\ d = errc => er.message = ErrcEntry(er.e.code)

\* the part that holds: the domain of std::errc
C35_HoldsForErrc ==
    NonSuccessOf(errc) =>
        /\ er.failure
        /\ er.message # ""
        /\ er.message = ErrcEntry(er.e.code)

\* the two placeholder domains have the empty message for every code
C35_PlaceholdersAreSilent ==
    \A d \in {throwing_error, throwing_exception} :
        (er.pc # "start" /\ er.e.domain = d) => er.message = ""

C35_ReachedListed ==
    /\ NonSuccessOf(errc)
    /\ er.e.code = 12
    /\ er.message = "Cannot allocate memory"

C35_ReachedUnlisted ==
    /\ NonSuccessOf(errc)
    /\ er.e.code = -1
    /\ er.message = "Unspecified error"

C35_ReachedPlaceholder ==
    /\ NonSuccessOf(throwing_error)
    /\ er.failure
    /\ er.message = ""

(***************************************************************************)
(* C36: the table of a type with n declared bases has the layout           *)
(* [n, descriptor of base 1..n in declaration order, conversion function   *)
(* to base 1..n in the same order], so that the i-th conversion function   *)
(* dyn_cast uses converts to the type the i-th base descriptor describes;  *)
(* the table of a type with no declared bases is [0].                      *)
(***************************************************************************)
C36_TableLayout ==
    Returned =>
        LET table == dc.type_info_entries
            Declared == define_exception[dc.most_derived]
            n == Len(Declared)
        IN  /\ Len(table) = 2 * n + 1
            /\ DOMAIN table[1] = {"n"}
            /\ table[1].n = n
            /\ \A i \in 1..n :
                /\ DOMAIN table[1 + i] = {"pointer"}
                /\ table[1 + i].pointer = Declared[i]
                /\ DOMAIN table[1 + n + i] = {"function"}
                /\ table[1 + n + i].function.src = dc.most_derived
                /\ table[1 + n + i].function.dst = Declared[i]
                /\ table[1 + n + i].function.dst = table[1 + i].pointer
            /\ n = 0 => table = <<[n |-> 0]>>
            \* the conversions dyn_cast applied are those of the tables on
            \* the way: each one converts to the type it then searched from
            /\ dc.result # NullPtr =>
                   /\ dc.result.obj = dc.most_derived_pointer.obj
                   /\ \A k \in 1..Len(dc.result.path) :
                          dc.result.path[k] \in
                              Bases(Before(dc.most_derived, dc.result.path, k))
                   /\ dc.result.path # <<>> =>
                          dc.result.path[Len(dc.result.path)] = dc.base

\* a type with two declared bases, converted through the second one
C36_Witness ==
    /\ Returned
    /\ dc.most_derived = "D"
    /\ Len(dc.type_info_entries) = 5
    /\ dc.type_info_entries[3].pointer = "C"
    /\ dc.type_info_entries[5].function.dst = "C"
    /\ dc.base = "B"
    /\ dc.result # NullPtr
    /\ dc.result.path = <<"C", "B">>

\* a type with no declared bases
C36_WitnessNoBases ==
    /\ Returned
    /\ dc.most_derived = "X"
    /\ dc.type_info_entries = <<[n |-> 0]>>

====
